---- MODULE Spec2Model ----
(***************************************************************************)
(* The sample cache engine of cache/models/samples.js: the sample hashes   *)
(* and the index sets kept in the key-value store, and the write           *)
(* operations (post, put, patch, upsert, bulk upsert, delete, delete       *)
(* related links) as sequences of store round trips.                       *)
(*                                                                         *)
(* A string the code splits or lower-cases is a sequence of characters, so *)
(* that split, toLowerCase and join are computed, not assumed.             *)
(***************************************************************************)
EXTENDS Integers, Sequences, FiniteSets, TLC

VARIABLES
  hashes,   \* the store's hashes: key -> (field -> value); a key without fields is absent
  sets,     \* the store's sets: key -> members; a key without members is absent
  now,      \* the clock read by new Date()
  procs,    \* per request: position, arguments, locals, pending pipeline
  left      \* per request slot: how many requests it may still start

vars == <<hashes, sets, now, procs, left>>

----------------------------------------------------------------------------
(* Bounds *)

MaxTime == 1      \* the clock runs 0..MaxTime
MaxOps == 3       \* requests started in one behaviour
MaxBulk == 2      \* items of one bulkUpsertByName call

----------------------------------------------------------------------------
(* Strings *)

sampleNameSeparator == "|"

Str(s) == <<s>>

Lower(c) ==
  CASE c = "S" -> "s"
    [] c = "A" -> "a"
    [] c = "B" -> "b"
    [] OTHER -> c

toLowerCase(str) == [i \in 1..Len(str) |-> Lower(str[i])]

RECURSIVE split(_)
\* String.prototype.split on the separator: always at least one segment
split(str) ==
  IF \A i \in 1..Len(str) : str[i] # sampleNameSeparator
  THEN <<str>>
  ELSE LET i == CHOOSE i \in 1..Len(str) :
                  /\ str[i] = sampleNameSeparator
                  /\ \A j \in 1..(i - 1) : str[j] # sampleNameSeparator
       IN <<SubSeq(str, 1, i - 1)>> \o split(SubSeq(str, i + 1, Len(str)))

Join(a, b) == a \o <<sampleNameSeparator>> \o b

includes(str, c) == \E i \in 1..Len(str) : str[i] = c

RECURSIVE trim(_)
\* String.prototype.trim: the string without the blanks at its two ends
trim(str) ==
  IF str # <<>> /\ Head(str) = " " THEN trim(Tail(str))
  ELSE IF str # <<>> /\ str[Len(str)] = " " THEN trim(SubSeq(str, 1, Len(str) - 1))
  ELSE str

RECURSIVE splitNames(_)
\* opts.filter.name.split(',').map((item) => item.trim())
splitNames(str) ==
  IF \A i \in 1..Len(str) : str[i] # ","
  THEN <<trim(str)>>
  ELSE LET i == CHOOSE i \in 1..Len(str) :
                  /\ str[i] = ","
                  /\ \A j \in 1..(i - 1) : str[j] # ","
       IN <<trim(SubSeq(str, 1, i - 1))>> \o splitNames(SubSeq(str, i + 1, Len(str)))

----------------------------------------------------------------------------
(* Name parsing *)

\* A variant of parseName that takes every name with a separator
parseNameLenient(name) ==
  LET arr == split(name) IN
  IF Len(arr) >= 2
  THEN [ok |-> TRUE, absolutePath |-> arr[1], aspectName |-> arr[2]]
  ELSE [ok |-> FALSE, absolutePath |-> <<>>, aspectName |-> <<>>]

\* A variant of parseName that keeps the second segment alone as the
\* aspect name
parseNameSecondSegment(name) ==
  LET arr == split(name) IN
  IF Len(arr) \in {2, 3}
  THEN [ok |-> TRUE, absolutePath |-> arr[1], aspectName |-> arr[2]]
  ELSE [ok |-> FALSE, absolutePath |-> <<>>, aspectName |-> <<>>]

\* parseName: two segments, or three with the last two re-joined; else the
\* invalid-name error (ok = FALSE)
parseName(name) ==
  LET arr == split(name) IN
  IF Len(arr) = 2
  THEN [ok |-> TRUE, absolutePath |-> arr[1], aspectName |-> arr[2]]
  ELSE IF Len(arr) = 3
  THEN [ok |-> TRUE, absolutePath |-> arr[1],
        aspectName |-> arr[2] \o <<sampleNameSeparator>> \o arr[3]]
  ELSE [ok |-> FALSE, absolutePath |-> <<>>, aspectName |-> <<>>]

\* parsedName.aspect.name.split('|')[0]
firstSegment(aspectName) == split(aspectName)[1]

----------------------------------------------------------------------------
(* The key-value store *)

EmptyRec == [k \in {} |-> ""]

Merge(new, old) ==
  [k \in DOMAIN new \cup DOMAIN old |-> IF k \in DOMAIN new THEN new[k] ELSE old[k]]

Without(f, ks) == [k \in DOMAIN f \ ks |-> f[k]]

sampleType == "samsto:sample:"
aspectType == "samsto:aspect:"
subjectType == "samsto:subject:"
subAspMapType == "samsto:subaspmap:"
aspSubMapType == "samsto:aspsubmap:"
aspWritersType == "samsto:aspwriters:"
parentAspectType == "samsto:parentaspect:"
sampleIndexKey == <<"samsto:samples">>

\* Key Builder: namespace token, then the lower-cased name
toKey(type, name) == <<type>> \o toLowerCase(name)

\* hgetall: the hash, or the empty record (null) when the key is absent
hgetall(h, key) == IF key \in DOMAIN h THEN h[key] ELSE EmptyRec

smembers(s, key) == IF key \in DOMAIN s THEN s[key] ELSE {}

hmset(h, key, fields) ==
  IF DOMAIN fields = {} THEN h
  ELSE [k \in DOMAIN h \cup {key} |->
          IF k = key THEN Merge(fields, hgetall(h, key)) ELSE h[k]]

del(h, key) == Without(h, {key})

hdel(h, key, field) ==
  LET r == Without(hgetall(h, key), {field}) IN
  IF DOMAIN r = {} THEN Without(h, {key})
  ELSE [k \in DOMAIN h |-> IF k = key THEN r ELSE h[k]]

sadd(s, key, member) ==
  [k \in DOMAIN s \cup {key} |->
     IF k = key THEN smembers(s, key) \cup {member} ELSE s[k]]

srem(s, key, member) ==
  LET r == smembers(s, key) \ {member} IN
  IF r = {} THEN Without(s, {key})
  ELSE [k \in DOMAIN s |-> IF k = key THEN r ELSE s[k]]

\* One store command of a pipeline
Cmd(op, key, arg) == [op |-> op, key |-> key, arg |-> arg]

\* The batch builder's commands
addAspectInSubjSet(absPath, aspName) ==
  Cmd("sadd", toKey(subAspMapType, absPath), toLowerCase(aspName))

addSubjectAbsPathInAspectSet(aspName, absPath) ==
  Cmd("sadd", toKey(aspSubMapType, aspName), toLowerCase(absPath))

addKeyToIndex(type, name) == Cmd("sadd", sampleIndexKey, toKey(type, name))

addChildAspectToParentAspectSet(aspName) ==
  Cmd("sadd", toKey(parentAspectType, firstSegment(aspName)), toLowerCase(aspName))

delKeyFromIndex(type, name) == Cmd("srem", sampleIndexKey, toKey(type, name))

delAspFromSubjSet(absPath, aspName) ==
  Cmd("srem", toKey(subAspMapType, absPath), toLowerCase(aspName))

delSubFromAspSet(aspName, absPath) ==
  Cmd("srem", toKey(aspSubMapType, aspName), toLowerCase(absPath))

delHash(type, name) == Cmd("del", toKey(type, name), "")

delHashField(type, name, field) == Cmd("hdel", toKey(type, name), field)

setHashMulti(type, name, fields) == Cmd("hmset", toKey(type, name), fields)

getHash(type, name) == Cmd("hgetall", toKey(type, name), "")

\* The effect of one command on the hashes and on the sets
ApplyHashes(h, c) ==
  CASE c.op = "hmset" -> hmset(h, c.key, c.arg)
    [] c.op = "del" -> del(h, c.key)
    [] c.op = "hdel" -> hdel(h, c.key, c.arg)
    [] OTHER -> h

ApplySets(s, c) ==
  CASE c.op = "sadd" -> sadd(s, c.key, c.arg)
    [] c.op = "srem" -> srem(s, c.key, c.arg)
    [] OTHER -> s

----------------------------------------------------------------------------
(* The collaborators: the relational store and the aspect/subject           *)
(* projections in the cache.  Both are read-only for this engine.          *)

Users == {"u1", "u2"}
NoUser == ""                        \* no acting user (userName is false)

UserId(u) == IF u = "u1" THEN "id1" ELSE "id2"
UserJson(u) == IF u = "u1" THEN "{name:u1}" ELSE "{name:u2}"

\* db.Subject.findByPk: found = FALSE is a missing record
dbSubject(id) ==
  CASE id = "sid1" -> [found |-> TRUE, absolutePath |-> <<"S">>, isPublished |-> TRUE]
    [] id = "sid2" -> [found |-> TRUE, absolutePath |-> <<"t">>, isPublished |-> FALSE]
    [] OTHER -> [found |-> FALSE, absolutePath |-> <<>>, isPublished |-> FALSE]

\* db.Aspect.findByPk
dbAspect(id) ==
  CASE id = "aid1" -> [found |-> TRUE, name |-> <<"a">>, isPublished |-> TRUE, writers |-> {}]
    [] id = "aid2" -> [found |-> TRUE, name |-> <<"B">>, isPublished |-> TRUE, writers |-> {"u1"}]
    [] id = "aid3" -> [found |-> TRUE, name |-> <<"c">>, isPublished |-> FALSE, writers |-> {}]
    [] OTHER -> [found |-> FALSE, name |-> <<>>, isPublished |-> FALSE, writers |-> {}]

SubjectIds == {"sid1", "sid2", "sid3"}
AspectIds == {"aid1", "aid2", "aid3", "aid4"}

\* aspect.isWritableBy(userName)
isWritableBy(asp, userName) == asp.writers = {} \/ userName \in asp.writers

AspectHash(name, published) ==
  [name |-> name, isPublished |-> published,
   criticalRange |-> <<40, 60>>, okRange |-> <<0, 10>>]

\* The cache as the engine finds it: published aspects a and b, the
\* unpublished aspect c, the published subject s; b has a writer list
InitHashes ==
  (toKey(aspectType, <<"a">>) :> AspectHash(<<"a">>, "true")) @@
  (toKey(aspectType, <<"b">>) :> AspectHash(<<"B">>, "true")) @@
  (toKey(aspectType, <<"c">>) :> AspectHash(<<"c">>, "false")) @@
  (toKey(subjectType, <<"s">>) :> [absolutePath |-> <<"S">>, isPublished |-> "true"])

InitSets == (toKey(aspWritersType, <<"b">>) :> {"u1"})

getAspectWriters(s, aspName) == smembers(s, toKey(aspWritersType, aspName))

aspectExists(h, aspName) ==
  LET a == hgetall(h, toKey(aspectType, aspName)) IN
  "isPublished" \in DOMAIN a /\ a.isPublished = "true"

subjectExists(h, absPath) ==
  LET a == hgetall(h, toKey(subjectType, absPath)) IN
  "isPublished" \in DOMAIN a /\ a.isPublished = "true"

----------------------------------------------------------------------------
(* Status Evaluator *)

Invalid == "Invalid"

Undefined == "undefined"     \* a field the payload does not carry

IsNumber(v) == v \in {"5", "50"}
Num(v) == IF v = "5" THEN 5 ELSE 50

inRange(a, range, v) ==
  /\ range \in DOMAIN a
  /\ IsNumber(v)
  /\ a[range][1] <= Num(v)
  /\ Num(v) <= a[range][2]

\* Range membership in the order Critical, Warning, Info, Ok; else Invalid
computeStatus(a, v) ==
  IF inRange(a, "criticalRange", v) THEN "Critical"
  ELSE IF inRange(a, "warningRange", v) THEN "Warning"
  ELSE IF inRange(a, "infoRange", v) THEN "Info"
  ELSE IF inRange(a, "okRange", v) THEN "Ok"
  ELSE Invalid

\* redisOps.calculateSampleStatus: the aspect of the sample name, its ranges
calculateSampleStatus(h, sampleName, v) ==
  LET parsed == parseName(toLowerCase(sampleName)) IN
  IF ~parsed.ok THEN Invalid
  ELSE computeStatus(hgetall(h, toKey(aspectType, firstSegment(parsed.aspectName))), v)

----------------------------------------------------------------------------
(* Permission Checker *)

\* A mutation of hasWritePermission: every identity may write
hasWritePermissionAnyone(writers, userName) == TRUE

\* hasWritePermission: TRUE, or FALSE where the code throws UpdateDeleteForbidden
hasWritePermission(writers, userName) ==
  ~(writers # {} /\ userName \notin writers)

----------------------------------------------------------------------------
(* Sample Record Codec *)

\* JSON.stringify of a related-links array (a link is written by its name)
stringifyLinks(links) ==
  CASE links = <<>> -> "[]"
    [] links = <<"l1">> -> "[l1]"
    [] links = <<"l2">> -> "[l2]"
    [] links = <<"l1", "l2">> -> "[l1,l2]"
    [] OTHER -> "[?]"

\* JSON.parse of a stored related-links string
parseLinks(str) ==
  CASE str = "[]" -> <<>>
    [] str = "[l1]" -> <<"l1">>
    [] str = "[l2]" -> <<"l2">>
    [] str = "[l1,l2]" -> <<"l1", "l2">>
    [] OTHER -> <<"?">>

sampleFieldsArr ==
  {"provider", "user", "messageBody", "messageCode", "name", "value",
   "relatedLinks", "status", "previousStatus", "statusChangedAt", "createdAt",
   "updatedAt", "aspectId", "subjectId", "owner", "ownerId"}

\* modelUtils.removeExtraAttributes
removeExtraAttributes(obj, fields) == [k \in DOMAIN obj \cap fields |-> obj[k]]

Has(obj, k) == k \in DOMAIN obj

NameOf(sample) == IF Has(sample, "name") THEN sample.name ELSE <<>>

\* truthiness of a string field: absent and the empty string are falsy
Truthy(obj, k) == k \in DOMAIN obj /\ obj[k] # ""

\* the one-field record k: obj[k], or nothing when obj has no k (undefined
\* values are dropped before hmset)
Pick(obj, k) == [f \in DOMAIN obj \cap {k} |-> obj[f]]

----------------------------------------------------------------------------
(* Requests *)

Procs == {1, 2}

NoArgs ==
  [name |-> <<>>, body |-> EmptyRec, user |-> NoUser, subjectId |-> "",
   aspectId |-> "", items |-> <<>>, relName |-> Undefined]

Idle ==
  [pc |-> "idle", op |-> "none", arg |-> NoArgs, t |-> 0, name |-> <<>>,
   cur |-> EmptyRec, work |-> <<>>, cmds |-> <<>>, reads |-> <<>>,
   ret |-> "", out |-> <<>>, preH |-> EmptyRec, preS |-> EmptyRec]

Resting(p) == procs[p].pc \in {"idle", "done"}

\* No request is between its first and its last round trip
AllResting == \A q \in Procs : Resting(q)

\* A request may start in a slot that is free and has a start left
CanStart(p) == Resting(p) /\ left[p] > 0

Begin(p, kind, arg) ==
  [Idle EXCEPT !.op = kind, !.arg = arg, !.t = now, !.preH = hashes, !.preS = sets]

\* The request is over: resolved (ret = "ok") with out, or rejected with ret
Done(r, ret, out) ==
  [r EXCEPT !.pc = "done", !.ret = ret, !.out = out, !.cmds = <<>>,
            !.reads = <<>>, !.cur = EmptyRec, !.work = <<>>]

Spend(p) == left' = [left EXCEPT ![p] = @ - 1]

\* The store after the head command of p's pipeline, and the replies so far
HeadCmd(p) == Head(procs[p].cmds)
HashesAfter(p) ==
  IF procs[p].cmds = <<>> THEN hashes ELSE ApplyHashes(hashes, HeadCmd(p))
SetsAfter(p) ==
  IF procs[p].cmds = <<>> THEN sets ELSE ApplySets(sets, HeadCmd(p))
RepliesAfter(p) ==
  IF procs[p].cmds # <<>> /\ HeadCmd(p).op = "hgetall"
  THEN Append(procs[p].reads, hgetall(hashes, HeadCmd(p).key))
  ELSE procs[p].reads

\* The store executes one command of a pipeline that has more to come
PipelineStep(p) ==
  /\ Len(procs[p].cmds) > 1
  /\ hashes' = HashesAfter(p)
  /\ sets' = SetsAfter(p)
  /\ procs' = [procs EXCEPT ![p].cmds = Tail(@), ![p].reads = RepliesAfter(p)]
  /\ UNCHANGED <<now, left>>

\* The store executes the last command of p's pipeline (a pipeline may be
\* empty) and the reply reaches the request at position pc
LastStep(p, pc) ==
  /\ procs[p].pc = pc
  /\ Len(procs[p].cmds) <= 1
  /\ hashes' = HashesAfter(p)
  /\ sets' = SetsAfter(p)
  /\ UNCHANGED <<now, left>>

\* Time passes, as long as a request can still start to read the clock
Tick ==
  /\ now < MaxTime
  /\ \E p \in Procs : left[p] > 0
  /\ now' = now + 1
  /\ UNCHANGED <<hashes, sets, procs, left>>

\* sampleStore.arrayObjsStringsToJson for a sample: the related links are parsed
arrayObjsStringsToJson(obj) ==
  [k \in DOMAIN obj |-> IF k = "relatedLinks" THEN parseLinks(obj[k]) ELSE obj[k]]

LastReply(p) == RepliesAfter(p)[Len(RepliesAfter(p))]

----------------------------------------------------------------------------
(* The tail of postSample, putSample, patchSample and                       *)
(* deleteSampleRelatedLinks: after the write, the sample is read back       *)

SampleWritten(p) ==
  /\ LastStep(p, "write")
  /\ procs' = [procs EXCEPT ![p].pc = "reread", ![p].reads = <<>>,
                            ![p].cmds = <<getHash(sampleType, procs[p].name)>>]

\* putSample and patchSample parse the name read back and throw on an
\* invalid one
SampleReturn(p) ==
  LET r == procs[p]
      updatedSamp == LastReply(p)
  IN
  /\ LastStep(p, "reread")
  /\ procs' = [procs EXCEPT ![p] =
       IF r.op \in {"put", "patch"} /\ ~parseName(NameOf(updatedSamp)).ok
       THEN Done(r, "InvalidName", <<>>)
       ELSE Done(r, "ok", <<arrayObjsStringsToJson(updatedSamp)>>)]

----------------------------------------------------------------------------
(* postSample *)

\* The record postSample writes for a new sample
PostFields(body, sampleName, status, t, userName) ==
  LET reqBody == removeExtraAttributes(body, sampleFieldsArr) IN
  Merge(
    Merge([name |-> sampleName,
           status |-> status,
           value |-> IF Truthy(reqBody, "value") THEN reqBody.value ELSE "",
           relatedLinks |-> IF Has(reqBody, "relatedLinks")
                            THEN stringifyLinks(reqBody.relatedLinks) ELSE "[]",
           previousStatus |-> Invalid,
           statusChangedAt |-> t,
           updatedAt |-> t,
           createdAt |-> t],
          IF userName # NoUser
          THEN [provider |-> UserId(userName), user |-> UserJson(userName)]
          ELSE EmptyRec),
    reqBody)

\* A mutation of PostCmds: the hash is written before the index structures
PostCmdsHashFirst(absolutePath, aspectName, sampleName, fields) ==
  << setHashMulti(sampleType, sampleName, fields),
     addAspectInSubjSet(absolutePath, aspectName),
     addSubjectAbsPathInAspectSet(aspectName, absolutePath),
     addKeyToIndex(sampleType, sampleName) >>

\* The creating pipeline of postSample
PostCmds(absolutePath, aspectName, sampleName, fields) ==
  << addAspectInSubjSet(absolutePath, aspectName),
     addSubjectAbsPathInAspectSet(aspectName, absolutePath),
     addKeyToIndex(sampleType, sampleName),
     setHashMulti(sampleType, sampleName, fields) >>

\* A mutation of PostRejection: the aspect's publication is not looked at
PostRejectionAnyAspect(subj, asp, userName) ==
  IF ~subj.found \/ ~subj.isPublished THEN "NotFound"
  ELSE IF ~asp.found THEN "NotFound"
  ELSE IF ~isWritableBy(asp, userName) THEN "Forbidden"
  ELSE "none"

\* The rejection the relational-store lookups of postSample lead to
PostRejection(subj, asp, userName) ==
  IF ~subj.found \/ ~subj.isPublished THEN "NotFound"
  ELSE IF ~asp.found \/ ~asp.isPublished THEN "NotFound"
  ELSE IF ~isWritableBy(asp, userName) THEN "Forbidden"
  ELSE "none"

\* A mutation of PostDuplicate: no sample is ever taken for a duplicate
PostDuplicateNever(sampFromRedis) == FALSE

\* The duplicate check of postSample on the reply of getHash
PostDuplicate(sampFromRedis) == DOMAIN sampFromRedis # {}

\* The relational-store lookups, then the duplicate check is sent
PostStart(p, subjectId, aspectId, body, userName) ==
  LET subj == dbSubject(subjectId)
      asp == dbAspect(aspectId)
      arg == [NoArgs EXCEPT !.subjectId = subjectId, !.aspectId = aspectId,
                            !.body = body, !.user = userName]
      r == Begin(p, "post", arg)
  IN
  /\ CanStart(p)
  /\ Spend(p)
  /\ procs' = [procs EXCEPT ![p] =
       IF PostRejection(subj, asp, userName) # "none"
       THEN Done(r, PostRejection(subj, asp, userName), <<>>)
       ELSE [r EXCEPT !.pc = "post_get",
                      !.name = Join(subj.absolutePath, asp.name),
                      !.cmds = <<getHash(sampleType, Join(subj.absolutePath, asp.name))>>]]
  /\ UNCHANGED <<hashes, sets, now>>

\* The duplicate check's reply: Conflict, or the creating pipeline is sent
PostCheck(p) ==
  LET r == procs[p]
      sampFromRedis == LastReply(p)
      subj == dbSubject(r.arg.subjectId)
      asp == dbAspect(r.arg.aspectId)
      v == IF Has(r.arg.body, "value") THEN r.arg.body.value ELSE Undefined
      status == calculateSampleStatus(hashes, r.name, v)
  IN
  /\ LastStep(p, "post_get")
  /\ procs' = [procs EXCEPT ![p] =
       IF PostDuplicate(sampFromRedis) THEN Done(r, "Conflict", <<>>)
       ELSE [r EXCEPT !.pc = "write", !.reads = <<>>,
                      !.cmds = PostCmds(subj.absolutePath, asp.name, r.name,
                                 PostFields(r.arg.body, r.name, status, r.t,
                                            r.arg.user))]]

----------------------------------------------------------------------------
(* deleteSample *)

\* A mutation of DeleteCmds: the key stays in the sample index
DeleteCmdsKeepIndex(sampleName, subjAbsPath, aspName) ==
  << delAspFromSubjSet(subjAbsPath, aspName),
     delSubFromAspSet(aspName, subjAbsPath),
     delHash(sampleType, sampleName) >>

\* A mutation of DeleteCmds: the subject stays in the aspect's subject set
DeleteCmdsKeepSubject(sampleName, subjAbsPath, aspName) ==
  << delKeyFromIndex(sampleType, sampleName),
     delAspFromSubjSet(subjAbsPath, aspName),
     delHash(sampleType, sampleName) >>

\* A mutation of DeleteCmds: the hash stays
DeleteCmdsKeepHash(sampleName, subjAbsPath, aspName) ==
  << delKeyFromIndex(sampleType, sampleName),
     delAspFromSubjSet(subjAbsPath, aspName),
     delSubFromAspSet(aspName, subjAbsPath) >>

\* The deleting pipeline
DeleteCmds(sampleName, subjAbsPath, aspName) ==
  << delKeyFromIndex(sampleType, sampleName),
     delAspFromSubjSet(subjAbsPath, aspName),
     delSubFromAspSet(aspName, subjAbsPath),
     delHash(sampleType, sampleName) >>

DeleteStart(p, sampleName, userName) ==
  LET parsed == parseName(toLowerCase(sampleName))
      r == Begin(p, "delete", [NoArgs EXCEPT !.name = sampleName, !.user = userName])
  IN
  /\ CanStart(p)
  /\ Spend(p)
  /\ procs' = [procs EXCEPT ![p] =
       IF ~parsed.ok THEN Done(r, "InvalidName", <<>>)
       ELSE [r EXCEPT !.pc = "del_get", !.name = sampleName,
                      !.cmds = <<getHash(sampleType, sampleName)>>]]
  /\ UNCHANGED <<hashes, sets, now>>

\* The sample's reply: NotFound, Forbidden, or the deleting pipeline is sent
DeleteCheck(p) ==
  LET r == procs[p]
      sampleObj == LastReply(p)
      parsed == parseName(toLowerCase(r.name))
  IN
  /\ LastStep(p, "del_get")
  /\ procs' = [procs EXCEPT ![p] =
       IF DOMAIN sampleObj = {} THEN Done(r, "NotFound", <<>>)
       ELSE IF ~hasWritePermission(getAspectWriters(sets, parsed.aspectName),
                                   r.arg.user)
       THEN Done(r, "Forbidden", <<>>)
       ELSE [r EXCEPT !.pc = "del_write", !.reads = <<>>,
                      !.cur = Merge([updatedAt |-> now], sampleObj),
                      !.cmds = DeleteCmds(r.name, parsed.absolutePath,
                                          parsed.aspectName)]]

DeleteReturn(p) ==
  /\ LastStep(p, "del_write")
  /\ procs' = [procs EXCEPT ![p] =
       Done(procs[p], "ok", <<arrayObjsStringsToJson(procs[p].cur)>>)]

----------------------------------------------------------------------------
(* The attribute algorithm *)

\* isSampleChanged: some key of the new sample other than name is new or differs
isSampleChanged(newSample, oldSample) ==
  \E key \in DOMAIN newSample :
    /\ key # "name"
    /\ \/ key \notin DOMAIN oldSample
       \/ key = "relatedLinks"      \* an array never equals the stored string
       \/ newSample[key] # oldSample[key]

\* A variant of the status bookkeeping that takes the computed status also
\* when the value is the stored one
statusAttributesAlways(value, prev, status, t) ==
  IF DOMAIN prev = {}
  THEN [status |-> status, previousStatus |-> Invalid, statusChangedAt |-> t]
  ELSE IF Has(prev, "status") /\ status = prev.status
  THEN Merge([status |-> status],
             Merge(Pick(prev, "previousStatus"), Pick(prev, "statusChangedAt")))
  ELSE Merge([status |-> status, statusChangedAt |-> t],
             IF Has(prev, "status") THEN [previousStatus |-> prev.status]
             ELSE EmptyRec)

\* A variant of the status bookkeeping that keeps the stored previous status
\* and change time when the status changes
statusAttributesStale(value, prev, status, t) ==
  IF DOMAIN prev = {}
  THEN [status |-> status, previousStatus |-> Invalid, statusChangedAt |-> t]
  ELSE IF Has(prev, "value") /\ value = prev.value
  THEN Merge(Pick(prev, "status"),
             Merge(Pick(prev, "previousStatus"), Pick(prev, "statusChangedAt")))
  ELSE Merge([status |-> status],
             Merge(Pick(prev, "previousStatus"), Pick(prev, "statusChangedAt")))

\* A variant of the status bookkeeping in which a new sample's previous
\* status is its first status
statusAttributesEcho(value, prev, status, t) ==
  IF DOMAIN prev = {}
  THEN [status |-> status, previousStatus |-> status, statusChangedAt |-> t]
  ELSE IF Has(prev, "value") /\ value = prev.value
  THEN Merge(Pick(prev, "status"),
             Merge(Pick(prev, "previousStatus"), Pick(prev, "statusChangedAt")))
  ELSE IF Has(prev, "status") /\ status = prev.status
  THEN Merge([status |-> status],
             Merge(Pick(prev, "previousStatus"), Pick(prev, "statusChangedAt")))
  ELSE Merge([status |-> status, statusChangedAt |-> t],
             IF Has(prev, "status") THEN [previousStatus |-> prev.status]
             ELSE EmptyRec)

\* A variant of the status bookkeeping that records a status change
\* whenever the value changes
statusAttributesRestamp(value, prev, status, t) ==
  IF DOMAIN prev = {}
  THEN [status |-> status, previousStatus |-> Invalid, statusChangedAt |-> t]
  ELSE IF Has(prev, "value") /\ value = prev.value
  THEN Merge(Pick(prev, "status"),
             Merge(Pick(prev, "previousStatus"), Pick(prev, "statusChangedAt")))
  ELSE Merge([status |-> status, statusChangedAt |-> t],
             IF Has(prev, "status") THEN [previousStatus |-> prev.status]
             ELSE EmptyRec)

\* The status, previousStatus and statusChangedAt of updateSampleAttributes;
\* value is the value after defaulting, prev the stored record (empty: none)
statusAttributes(value, prev, status, t) ==
  IF DOMAIN prev = {}
  THEN [status |-> status, previousStatus |-> Invalid, statusChangedAt |-> t]
  ELSE IF Has(prev, "value") /\ value = prev.value
  THEN Merge(Pick(prev, "status"),
             Merge(Pick(prev, "previousStatus"), Pick(prev, "statusChangedAt")))
  ELSE IF Has(prev, "status") /\ status = prev.status
  THEN Merge([status |-> status],
             Merge(Pick(prev, "previousStatus"), Pick(prev, "statusChangedAt")))
  ELSE Merge([status |-> status, statusChangedAt |-> t],
             IF Has(prev, "status") THEN [previousStatus |-> prev.status]
             ELSE EmptyRec)

\* The related links of updateSampleAttributes, stringified; no field when
\* none is resolved
linksAttribute(curr, prev) ==
  IF Has(curr, "relatedLinks")
  THEN [relatedLinks |-> stringifyLinks(curr.relatedLinks)]
  ELSE IF DOMAIN prev = {}
  THEN [relatedLinks |-> stringifyLinks(<<>>)]
  ELSE IF Has(prev, "relatedLinks") /\ prev.relatedLinks # "[]"
  THEN [relatedLinks |-> stringifyLinks(parseLinks(prev.relatedLinks))]
  ELSE EmptyRec

\* updateSampleAttributes(curr, prev, status) at time t: the record to store
updateSampleAttributes(curr, prev, status, t) ==
  LET c1 == removeExtraAttributes(curr, sampleFieldsArr)
      named == IF Has(prev, "name") THEN [name |-> prev.name] ELSE EmptyRec
      value == IF Has(c1, "value") THEN c1.value
               ELSE IF Has(prev, "value") THEN prev.value
               ELSE ""
      stamps == IF DOMAIN prev = {}
                THEN [createdAt |-> t, updatedAt |-> t]
                ELSE [updatedAt |-> t]
      computed ==
        Merge(named,
          Merge([value |-> value],
            Merge(statusAttributes(value, prev, status, t),
              Merge(linksAttribute(c1, prev), stamps))))
  IN Merge(computed, Without(c1, {"status", "previousStatus",
                                   "statusChangedAt", "relatedLinks"}))

----------------------------------------------------------------------------
(* upsertSample and bulkUpsertByName *)

\* The fields a bulk upsert request may not carry
ReadOnlyFields ==
  {"status", "previousStatus", "statusChangedAt", "createdAt", "updatedAt"}

\* commonUtils.noReadOnlyFieldsInReq: TRUE, or FALSE where it throws
noReadOnlyFieldsInReq(sample, readOnlyFields) ==
  DOMAIN sample \cap readOnlyFields = {}

\* How many of the first i entries of work carry no error
Rank(work, i) == Cardinality({j \in 1..i : work[j].err = ""})

Survivors(work) == SelectSeq(work, LAMBDA w : w.err = "")

\* getValuesForSamples: what the read pipeline returns for one sample;
\* existingSample is the reply of its getHash
sampleAttributes(h, s, sample, existingSample) ==
  LET parsed == parseName(toLowerCase(sample.name))
      aspName == firstSegment(parsed.aspectName)
  IN [subjectExists |-> subjectExists(h, parsed.absolutePath),
      aspectExists |-> aspectExists(h, aspName),
      aspectWriters |-> getAspectWriters(s, aspName),
      existingSample |-> existingSample,
      sampleStatus |-> calculateSampleStatus(h, sample.name,
                         IF Has(sample, "value") THEN sample.value ELSE Undefined)]

\* A variant of prepareSampleForUpsert without the publication check of the
\* aspect
prepareSampleForUpsertAnyAspect(newSample, attrs, userName, t) ==
  LET withStatus == Merge([status |-> attrs.sampleStatus], newSample) IN
  [err |-> IF ~hasWritePermission(attrs.aspectWriters, userName) THEN "Forbidden"
           ELSE IF ~attrs.subjectExists THEN "NotFound"
           ELSE "",
   sample |-> updateSampleAttributes(withStatus, attrs.existingSample,
                                     attrs.sampleStatus, t),
   existing |-> DOMAIN attrs.existingSample # {},
   noChange |-> /\ DOMAIN attrs.existingSample # {}
                /\ ~isSampleChanged(withStatus, attrs.existingSample)]

\* prepareSampleForUpsert: the error it throws ("" when none), the record to
\* store and the no-change flag
prepareSampleForUpsert(newSample, attrs, userName, t) ==
  LET withStatus == Merge([status |-> attrs.sampleStatus], newSample) IN
  [err |-> IF ~hasWritePermission(attrs.aspectWriters, userName) THEN "Forbidden"
           ELSE IF ~attrs.subjectExists THEN "NotFound"
           ELSE IF ~attrs.aspectExists THEN "NotFound"
           ELSE "",
   sample |-> updateSampleAttributes(withStatus, attrs.existingSample,
                                     attrs.sampleStatus, t),
   existing |-> DOMAIN attrs.existingSample # {},
   noChange |-> /\ DOMAIN attrs.existingSample # {}
                /\ ~isSampleChanged(withStatus, attrs.existingSample)]

\* A mutation of NewSampleCmds: the new sample is not added to the index
NewSampleCmdsNoIndex(newSample, userName) ==
  LET parsed == parseName(newSample.name) IN
  << addAspectInSubjSet(parsed.absolutePath, parsed.aspectName),
     addChildAspectToParentAspectSet(parsed.aspectName),
     setHashMulti(sampleType, newSample.name, newSample),
     addSubjectAbsPathInAspectSet(parsed.aspectName, parsed.absolutePath) >>

\* The commands upsertSamples queues for one new sample
NewSampleCmds(newSample, userName) ==
  LET parsed == parseName(newSample.name)
      fields == IF userName # NoUser
                THEN Merge([provider |-> UserId(userName),
                            user |-> UserJson(userName)], newSample)
                ELSE newSample
  IN << addAspectInSubjSet(parsed.absolutePath, parsed.aspectName),
        addKeyToIndex(sampleType, newSample.name),
        addChildAspectToParentAspectSet(parsed.aspectName),
        setHashMulti(sampleType, newSample.name, fields),
        addSubjectAbsPathInAspectSet(parsed.aspectName, parsed.absolutePath) >>

RECURSIVE Flatten(_)
Flatten(seqs) == IF seqs = <<>> THEN <<>> ELSE Head(seqs) \o Flatten(Tail(seqs))

\* A variant of UpsertCmds that queues the writes from the last sample to
\* the first
UpsertCmdsLastFirst(prepared, userName) ==
  LET oldFirst == SelectSeq(prepared, LAMBDA w : w.existing)
      newFirst == SelectSeq(prepared, LAMBDA w : ~w.existing)
      old == [i \in 1..Len(oldFirst) |-> oldFirst[Len(oldFirst) + 1 - i]]
      new == [i \in 1..Len(newFirst) |-> newFirst[Len(newFirst) + 1 - i]]
  IN Flatten([i \in 1..Len(old) |->
                <<setHashMulti(sampleType, old[i].sample.name, old[i].sample)>>])
     \o Flatten([i \in 1..Len(new) |-> NewSampleCmds(new[i].sample, userName)])
     \o [i \in 1..Len(prepared) |-> getHash(sampleType, prepared[i].sample.name)]

\* A variant of UpsertCmds that queues the commands of a new sample for
\* every sample, also for one that has a record
UpsertCmdsAllNew(prepared, userName) ==
  Flatten([i \in 1..Len(prepared) |-> NewSampleCmds(prepared[i].sample, userName)])
  \o [i \in 1..Len(prepared) |-> getHash(sampleType, prepared[i].sample.name)]

\* upsertSamples: the writing pipeline for the prepared samples, in order:
\* the existing samples, the new samples, then every sample is read back
UpsertCmds(prepared, userName) ==
  LET old == SelectSeq(prepared, LAMBDA w : w.existing)
      new == SelectSeq(prepared, LAMBDA w : ~w.existing)
  IN Flatten([i \in 1..Len(old) |->
                <<setHashMulti(sampleType, old[i].sample.name, old[i].sample)>>])
     \o Flatten([i \in 1..Len(new) |-> NewSampleCmds(new[i].sample, userName)])
     \o [i \in 1..Len(prepared) |-> getHash(sampleType, prepared[i].sample.name)]

\* prepareSampleForPublish
prepareSampleForPublish(sample) ==
  LET parsed == parseName(sample.name) IN
  Merge([absolutePath |-> parsed.absolutePath, aspectName |-> parsed.aspectName],
        sample)

Unprepared(sample, err) ==
  [err |-> err, sample |-> sample, existing |-> FALSE, noChange |-> FALSE]

\* The read pipeline of getValuesForSamples for the valid samples of work
ReadCmds(work) ==
  LET valid == Survivors(work) IN
  [i \in 1..Len(valid) |-> getHash(sampleType, valid[i].sample.name)]

UpsertStart(p, sample, userName) ==
  LET r == Begin(p, "upsert", [NoArgs EXCEPT !.items = <<sample>>, !.user = userName])
      work == <<Unprepared(sample, "")>>
  IN
  /\ CanStart(p)
  /\ Spend(p)
  /\ procs' = [procs EXCEPT ![p] =
       IF ~parseName(toLowerCase(NameOf(sample))).ok
       THEN Done(r, "InvalidName", <<>>)
       ELSE [r EXCEPT !.pc = "ups_read", !.work = work, !.cmds = ReadCmds(work)]]
  /\ UNCHANGED <<hashes, sets, now>>

\* bulkUpsertByName validates every sample and sends one read pipeline for
\* the valid ones
BulkStart(p, items, userName) ==
  LET r == Begin(p, "bulk", [NoArgs EXCEPT !.items = items, !.user = userName])
      work == [i \in 1..Len(items) |->
                 IF ~parseName(NameOf(items[i])).ok
                 THEN Unprepared(items[i], "InvalidName")
                 ELSE IF ~noReadOnlyFieldsInReq(items[i], ReadOnlyFields)
                 THEN Unprepared(items[i], "ReadOnly")
                 ELSE Unprepared(items[i], "")]
  IN
  /\ CanStart(p)
  /\ Spend(p)
  /\ procs' = [procs EXCEPT ![p] =
       [r EXCEPT !.pc = "ups_read", !.work = work, !.cmds = ReadCmds(work)]]
  /\ UNCHANGED <<hashes, sets, now>>

\* The read pipeline's replies: every valid sample is prepared against the
\* record read for it; a single upsert rejects on an error, a bulk upsert
\* records it; then the write pipeline is sent
UpsertPrepare(p) ==
  LET r == procs[p]
      replies == RepliesAfter(p)
      work == [i \in 1..Len(r.work) |->
                 IF r.work[i].err # "" THEN r.work[i]
                 ELSE LET prep == prepareSampleForUpsert(r.work[i].sample,
                                    sampleAttributes(hashes, sets, r.work[i].sample,
                                                     replies[Rank(r.work, i)]),
                                    r.arg.user, now)
                      IN IF prep.err # "" THEN Unprepared(r.work[i].sample, prep.err)
                         ELSE prep]
  IN
  /\ LastStep(p, "ups_read")
  /\ procs' = [procs EXCEPT ![p] =
       IF r.op = "upsert" /\ work[1].err # ""
       THEN Done(r, work[1].err, <<>>)
       ELSE [r EXCEPT !.pc = "ups_write", !.work = work, !.reads = <<>>,
                      !.cmds = UpsertCmds(Survivors(work), r.arg.user)]]

\* One slot of the response: an inline failure, or the sample read back
Failure(err) == [isFailed |-> TRUE, explanation |-> err]
Upserted(w, reply) ==
  [isFailed |-> FALSE, noChange |-> w.noChange,
   sample |-> prepareSampleForPublish(arrayObjsStringsToJson(reply))]

\* A mutation of mergedResults: the samples come first, the failures after
mergedResultsCompact(work, replies) ==
  LET failed == SelectSeq(work, LAMBDA w : w.err # "")
      good == Survivors(work)
  IN [i \in 1..Len(work) |->
        IF i <= Len(good) THEN Upserted(good[i], replies[i])
        ELSE Failure(failed[i - Len(good)].err)]

\* bulkUpsertByName: the replies of the write pipeline are merged with the
\* recorded errors, each at the position of its input
mergedResults(work, replies) ==
  [i \in 1..Len(work) |->
     IF work[i].err # "" THEN Failure(work[i].err)
     ELSE Upserted(work[i], replies[Rank(work, i)])]

UpsertReturn(p) ==
  LET r == procs[p]
      replies == RepliesAfter(p)
      torn == \E i \in 1..Len(replies) : ~parseName(NameOf(replies[i])).ok
  IN
  /\ LastStep(p, "ups_write")
  /\ procs' = [procs EXCEPT ![p] =
       IF torn THEN Done(r, "InvalidName", <<>>)
       ELSE Done(r, "ok", mergedResults(r.work, replies))]

----------------------------------------------------------------------------
(* putSample *)

\* The fields putSample sets: a full replace of value and related links
PutFields(body, cur, status, t) ==
  LET reqBody == removeExtraAttributes(body, sampleFieldsArr)
      changed == IF Has(cur, "status") /\ cur.status = status THEN EmptyRec
                 ELSE Merge([statusChangedAt |-> t, status |-> status],
                            IF Has(cur, "status")
                            THEN [previousStatus |-> cur.status] ELSE EmptyRec)
  IN Merge(
       Merge(changed,
             [value |-> IF Truthy(reqBody, "value") THEN reqBody.value ELSE "",
              updatedAt |-> t,
              relatedLinks |-> IF Has(reqBody, "relatedLinks")
                               THEN stringifyLinks(reqBody.relatedLinks)
                               ELSE "[]"]),
       reqBody)

\* A mutation of PutCmds: the message fields are never deleted
PutCmdsKeepMessage(sampleName, body, fields) ==
  << setHashMulti(sampleType, sampleName, fields) >>

\* The pipeline of putSample: the message fields are deleted when the
\* payload has no message body, then the hash is written
PutCmds(sampleName, body, fields) ==
  (IF ~Truthy(removeExtraAttributes(body, sampleFieldsArr), "messageBody")
   THEN << delHashField(sampleType, sampleName, "messageBody"),
           delHashField(sampleType, sampleName, "messageCode") >>
   ELSE <<>>)
  \o << setHashMulti(sampleType, sampleName, fields) >>

PutStart(p, sampleName, body, userName) ==
  LET r == Begin(p, "put", [NoArgs EXCEPT !.name = sampleName, !.body = body,
                                          !.user = userName])
  IN
  /\ CanStart(p)
  /\ Spend(p)
  /\ procs' = [procs EXCEPT ![p] =
       IF ~parseName(sampleName).ok THEN Done(r, "InvalidName", <<>>)
       ELSE [r EXCEPT !.pc = "put_get", !.name = sampleName,
                      !.cmds = <<getHash(sampleType, sampleName)>>]]
  /\ UNCHANGED <<hashes, sets, now>>

PutCheck(p) ==
  LET r == procs[p]
      sampObj == LastReply(p)
      aspectName == parseName(r.name).aspectName
      reqBody == removeExtraAttributes(r.arg.body, sampleFieldsArr)
      value == IF Truthy(reqBody, "value") THEN reqBody.value ELSE ""
      status == calculateSampleStatus(hashes, r.name, value)
  IN
  /\ LastStep(p, "put_get")
  /\ procs' = [procs EXCEPT ![p] =
       IF DOMAIN sampObj = {} THEN Done(r, "NotFound", <<>>)
       ELSE IF ~hasWritePermission(getAspectWriters(sets, aspectName), r.arg.user)
       THEN Done(r, "Forbidden", <<>>)
       ELSE [r EXCEPT !.pc = "write", !.reads = <<>>, !.cur = sampObj,
                      !.cmds = PutCmds(r.name, r.arg.body,
                                       PutFields(r.arg.body, sampObj, status, r.t))]]

----------------------------------------------------------------------------
(* patchSample *)

\* A mutation of PatchFields: the fields are set as putSample sets them
PatchFieldsAsPut(body, cur, status, t) == PutFields(body, cur, status, t)

\* The fields patchSample sets: the payload, and the status bookkeeping when
\* the payload has a value
PatchFields(body, cur, status, t) ==
  LET reqBody == removeExtraAttributes(body, sampleFieldsArr)
      changed == IF Has(cur, "status") /\ cur.status = status THEN EmptyRec
                 ELSE Merge([statusChangedAt |-> t, status |-> status],
                            IF Has(cur, "status")
                            THEN [previousStatus |-> cur.status] ELSE EmptyRec)
      bookkeeping == IF Truthy(reqBody, "value")
                     THEN Merge(changed, [updatedAt |-> t]) ELSE EmptyRec
      links == IF Has(reqBody, "relatedLinks")
               THEN [relatedLinks |-> stringifyLinks(reqBody.relatedLinks)]
               ELSE EmptyRec
  IN Merge(links, Merge(bookkeeping, reqBody))

\* The permission check comes first, then the sample is read
PatchStart(p, sampleName, body, userName) ==
  LET r == Begin(p, "patch", [NoArgs EXCEPT !.name = sampleName, !.body = body,
                                            !.user = userName])
      parsed == parseName(toLowerCase(sampleName))
  IN
  /\ CanStart(p)
  /\ Spend(p)
  /\ procs' = [procs EXCEPT ![p] =
       IF ~parsed.ok THEN Done(r, "InvalidName", <<>>)
       ELSE IF ~hasWritePermission(getAspectWriters(sets, parsed.aspectName),
                                   userName)
       THEN Done(r, "Forbidden", <<>>)
       ELSE [r EXCEPT !.pc = "patch_get", !.name = sampleName,
                      !.cmds = <<getHash(sampleType, sampleName)>>]]
  /\ UNCHANGED <<hashes, sets, now>>

PatchCheck(p) ==
  LET r == procs[p]
      sampObj == LastReply(p)
      reqBody == removeExtraAttributes(r.arg.body, sampleFieldsArr)
      status == calculateSampleStatus(hashes, r.name,
                  IF Has(reqBody, "value") THEN reqBody.value ELSE Undefined)
  IN
  /\ LastStep(p, "patch_get")
  /\ procs' = [procs EXCEPT ![p] =
       IF DOMAIN sampObj = {} THEN Done(r, "NotFound", <<>>)
       ELSE [r EXCEPT !.pc = "write", !.reads = <<>>, !.cur = sampObj,
                      !.cmds = <<setHashMulti(sampleType, r.name,
                                   PatchFields(r.arg.body, sampObj, status, r.t))>>]]

----------------------------------------------------------------------------
(* deleteSampleRelatedLinks *)

\* u.deleteAJsonArrayElement: the links without the named one
deleteAJsonArrayElement(links, relName) ==
  SelectSeq(links, LAMBDA l : l # relName)

\* The fields deleteSampleRelatedLinks writes; relName is Undefined when every
\* link is to go
RelatedLinksFields(cur, relName, t) ==
  LET updatedRlinks ==
        IF relName # Undefined
        THEN deleteAJsonArrayElement(parseLinks(cur.relatedLinks), relName)
        ELSE <<>>
  IN [relatedLinks |-> stringifyLinks(updatedRlinks), updatedAt |-> t]

DeleteLinksStart(p, sampleName, relName, userName) ==
  LET r == Begin(p, "deleteLinks", [NoArgs EXCEPT !.name = sampleName,
                                      !.relName = relName, !.user = userName])
  IN
  /\ CanStart(p)
  /\ Spend(p)
  /\ procs' = [procs EXCEPT ![p] =
       IF ~parseName(sampleName).ok THEN Done(r, "InvalidName", <<>>)
       ELSE [r EXCEPT !.pc = "links_get", !.name = sampleName,
                      !.cmds = <<getHash(sampleType, sampleName)>>]]
  /\ UNCHANGED <<hashes, sets, now>>

\* JSON.parse of a missing relatedLinks field throws
DeleteLinksCheck(p) ==
  LET r == procs[p]
      sampObj == LastReply(p)
      aspectName == parseName(r.name).aspectName
  IN
  /\ LastStep(p, "links_get")
  /\ procs' = [procs EXCEPT ![p] =
       IF DOMAIN sampObj = {} THEN Done(r, "NotFound", <<>>)
       ELSE IF ~hasWritePermission(getAspectWriters(sets, aspectName), r.arg.user)
       THEN Done(r, "Forbidden", <<>>)
       ELSE IF r.arg.relName # Undefined /\ ~Has(sampObj, "relatedLinks")
       THEN Done(r, "SyntaxError", <<>>)
       ELSE [r EXCEPT !.pc = "write", !.reads = <<>>, !.cur = sampObj,
                      !.cmds = <<setHashMulti(sampleType, r.name,
                                   RelatedLinksFields(sampObj, r.arg.relName, r.t))>>]]

----------------------------------------------------------------------------
(* The requests of the specifications *)

nSA == <<"s", "|", "a">>
nUpper == <<"S", "|", "A">>
nSB == <<"s", "|", "B">>
nCompound == <<"s", "|", "a", "|", "x">>
nUnpublishedAspect == <<"s", "|", "c">>
nAbsentSubject == <<"t", "|", "a">>
nOneSegment == <<"s">>
nFourSegments == <<"s", "|", "a", "|", "x", "|", "y">>

\* Names of samples that can exist, in the letter cases the requests use
StoredNames == {nSA, nUpper, nSB, nCompound}

\* Names the upserts carry: also unpublished, absent and malformed ones
UpsertNames ==
  StoredNames \cup {nUnpublishedAspect, nAbsentSubject, nOneSegment}

\* Names the other requests carry
RequestNames == StoredNames \cup {nOneSegment}

Actors == Users \cup {NoUser}

\* Payloads of the requests that exercise the index structures
PlainBodies == {[value |-> "50"]}

Named(name, body) == Merge([name |-> name], body)

Sequences(S, n) == UNION {[1..m -> S] : m \in 0..n}

\* The requests, with their inputs drawn from the given sets
Posts(p, sids, aids, bodies, actors) ==
  \E sid \in sids, aid \in aids, b \in bodies, u \in actors :
    PostStart(p, sid, aid, b, u)

Upserts(p, names, bodies, actors) ==
  \E n \in names, b \in bodies, u \in actors : UpsertStart(p, Named(n, b), u)

Bulks(p, samples, actors) ==
  \E items \in Sequences(samples, MaxBulk), u \in actors : BulkStart(p, items, u)

Puts(p, names, bodies, actors) ==
  \E n \in names, b \in bodies, u \in actors : PutStart(p, n, b, u)

Patches(p, names, bodies, actors) ==
  \E n \in names, b \in bodies, u \in actors : PatchStart(p, n, b, u)

Deletes(p, names, actors) ==
  \E n \in names, u \in actors : DeleteStart(p, n, u)

DeleteLinks(p, names, relNames, actors) ==
  \E n \in names, l \in relNames, u \in actors : DeleteLinksStart(p, n, l, u)

\* Spec: every operation, on every name, by the writer u1, one after the other
BulkSamples ==
  {Named(nSA, [value |-> "5"]), Named(nCompound, EmptyRec), Named(nOneSegment, EmptyRec)}

\* The round trips of a request that has started
Advance(p) ==
  \/ PipelineStep(p)
  \/ PostCheck(p)
  \/ UpsertPrepare(p)
  \/ UpsertReturn(p)
  \/ PutCheck(p)
  \/ PatchCheck(p)
  \/ DeleteCheck(p)
  \/ DeleteReturn(p)
  \/ DeleteLinksCheck(p)
  \/ SampleWritten(p)
  \/ SampleReturn(p)

Init ==
  /\ hashes = InitHashes
  /\ sets = InitSets
  /\ now = 0
  /\ procs = [p \in Procs |-> Idle]
  /\ left = [p \in Procs |-> IF p = 1 THEN MaxOps ELSE 0]

\* Requests run one after the other: a request starts when none is running
Next ==
  \/ AllResting /\ Tick
  \/ \E p \in Procs : AllResting /\ Posts(p, SubjectIds, AspectIds, PlainBodies, {"u1"})
  \/ \E p \in Procs : AllResting /\ Upserts(p, UpsertNames, PlainBodies, {"u1"})
  \/ \E p \in Procs : AllResting /\ Bulks(p, BulkSamples, {"u1"})
  \/ \E p \in Procs : AllResting /\ Puts(p, RequestNames, PlainBodies, {"u1"})
  \/ \E p \in Procs : AllResting /\ Patches(p, RequestNames, PlainBodies, {"u1"})
  \/ \E p \in Procs : AllResting /\ Deletes(p, RequestNames, {"u1"})
  \/ \E p \in Procs : AllResting /\ DeleteLinks(p, RequestNames, {Undefined}, {"u1"})
  \/ \E p \in Procs : Advance(p)

Spec == Init /\ [][Next]_vars

----------------------------------------------------------------------------
(* Reading: the join of a sample with its aspect *)

\* getSamplesAndAspects: the aspect key derived from a sample key
aspectKeyOf(sKey) ==
  LET aNameSplit == split(sKey)
      aName == IF Len(aNameSplit) = 3
               THEN aNameSplit[2] \o <<sampleNameSeparator>> \o aNameSplit[3]
               ELSE IF Len(aNameSplit) >= 2 THEN aNameSplit[2] ELSE <<Undefined>>
  IN toLowerCase(toKey(aspectType, aName))

\* assembleSampleAspects over getSamplesAndAspects: the sample keys among
\* sampleKeys whose sample hash and aspect hash both exist
joinable(h, sampleKeys) ==
  {k \in sampleKeys :
     /\ DOMAIN hgetall(h, toLowerCase(k)) # {}
     /\ DOMAIN hgetall(h, aspectKeyOf(k)) # {}}

\* findSamples with no filter and no order: the keys of the samples returned
\* when limit and offset cut nothing off
findAllSamples(h, s) == joinable(h, smembers(s, sampleIndexKey))

----------------------------------------------------------------------------
(* Claims on the index structures (Spec) *)

Finished(p, op) == procs[p].pc = "done" /\ procs[p].op = op

NameOfKey(key) == Tail(key)

\* The three index entries of the sample stored under a sample key
InIndex(s, key) == key \in smembers(s, sampleIndexKey)

InAspectSet(s, key) ==
  LET parsed == parseName(NameOfKey(key)) IN
  parsed.absolutePath \in smembers(s, toKey(aspSubMapType, parsed.aspectName))

InSubjectSet(s, key) ==
  LET parsed == parseName(NameOfKey(key)) IN
  parsed.aspectName \in smembers(s, toKey(subAspMapType, parsed.absolutePath))

HasHash(h, key) == key \in DOMAIN h

\* C1: between requests that run one after the other from an empty cache,
\* every name of the sample index has a sample hash, its subject is in its
\* aspect's subject set and its aspect is in its subject's aspect set
C1_IndexedSamplesAreWhole ==
  AllResting =>
    \A key \in smembers(sets, sampleIndexKey) :
      HasHash(hashes, key) /\ InAspectSet(sets, key) /\ InSubjectSet(sets, key)

\* A delete has succeeded and samples remain in the index
C1_Witness ==
  /\ \E p \in Procs : Finished(p, "delete") /\ procs[p].ret = "ok"
  /\ Cardinality(smembers(sets, sampleIndexKey)) >= 1

\* C2: when a deleteSample(N) has succeeded, N is in none of the three index
\* structures, its hash is gone and an unfiltered findSamples does not return
\* it, in whatever letter case N was created and is deleted
C2_DeletedSampleIsGone ==
  \A p \in Procs :
    Finished(p, "delete") /\ procs[p].ret = "ok" =>
      LET key == toKey(sampleType, procs[p].arg.name) IN
      /\ ~InIndex(sets, key)
      /\ ~InSubjectSet(sets, key)
      /\ ~InAspectSet(sets, key)
      /\ ~HasHash(hashes, key)
      /\ key \notin findAllSamples(hashes, sets)

\* A delete called with a name in another letter case than the stored name
\* has succeeded on a sample that was whole
C2_Witness ==
  \E p \in Procs :
    /\ Finished(p, "delete") /\ procs[p].ret = "ok"
    /\ LET key == toKey(sampleType, procs[p].arg.name) IN
       /\ HasHash(procs[p].preH, key)
       /\ procs[p].preH[key].name # procs[p].arg.name
       /\ InIndex(procs[p].preS, key)
       /\ InSubjectSet(procs[p].preS, key)
       /\ InAspectSet(procs[p].preS, key)
       /\ key \in findAllSamples(procs[p].preH, procs[p].preS)

Unchanged(p) == hashes = procs[p].preH /\ sets = procs[p].preS

\* The sample name postSample builds from the records of the relational store
PostedName(p) ==
  Join(dbSubject(procs[p].arg.subjectId).absolutePath,
       dbAspect(procs[p].arg.aspectId).name)

Published(rec) == rec.found /\ rec.isPublished

\* C4: a postSample that reaches the duplicate check for a pair whose sample
\* hash exists is rejected with Conflict and changes neither the hashes nor
\* the index structures
C4_DuplicatePostConflicts ==
  \A p \in Procs :
    /\ Finished(p, "post")
    /\ Published(dbSubject(procs[p].arg.subjectId))
    /\ Published(dbAspect(procs[p].arg.aspectId))
    /\ isWritableBy(dbAspect(procs[p].arg.aspectId), procs[p].arg.user)
    /\ HasHash(procs[p].preH, toKey(sampleType, PostedName(p)))
    => procs[p].ret = "Conflict" /\ Unchanged(p)

C4_Witness ==
  \E p \in Procs :
    /\ Finished(p, "post")
    /\ procs[p].ret = "Conflict"
    /\ HasHash(procs[p].preH, toKey(sampleType, PostedName(p)))

\* C5: postSample is rejected with NotFound and writes nothing when the
\* subject or the aspect is missing or unpublished in the relational store;
\* it creates a sample only when both are published
C5_PostNeedsPublished ==
  \A p \in Procs :
    Finished(p, "post") =>
      LET bothPublished == /\ Published(dbSubject(procs[p].arg.subjectId))
                           /\ Published(dbAspect(procs[p].arg.aspectId))
      IN /\ ~bothPublished => procs[p].ret = "NotFound" /\ Unchanged(p)
         /\ procs[p].ret = "ok" => bothPublished

\* A post for a published subject and an unpublished aspect has been rejected
\* while samples exist
C5_Witness ==
  \E p \in Procs :
    /\ Finished(p, "post")
    /\ procs[p].ret = "NotFound"
    /\ Published(dbSubject(procs[p].arg.subjectId))
    /\ dbAspect(procs[p].arg.aspectId).found
    /\ smembers(sets, sampleIndexKey) # {}

----------------------------------------------------------------------------
(* SpecRace: one creation and one deleteSample of the same name, their      *)
(* commands interleaved one by one                                          *)

RECURSIVE RunHashes(_, _)
RunHashes(h, cmds) ==
  IF cmds = <<>> THEN h ELSE RunHashes(ApplyHashes(h, Head(cmds)), Tail(cmds))

RECURSIVE RunSets(_, _)
RunSets(s, cmds) ==
  IF cmds = <<>> THEN s ELSE RunSets(ApplySets(s, Head(cmds)), Tail(cmds))

\* The pipeline an earlier postSample by u1 has run, so that a specification
\* may start on samples that exist
EarlierPostOf(subjectId, aspectId, body) ==
  LET absolutePath == dbSubject(subjectId).absolutePath
      aspectName == dbAspect(aspectId).name
      sampleName == Join(absolutePath, aspectName)
      v == IF Has(body, "value") THEN body.value ELSE Undefined
  IN PostCmds(absolutePath, aspectName, sampleName,
              PostFields(body, sampleName,
                         calculateSampleStatus(InitHashes, sampleName, v), 0, "u1"))

EarlierPost == EarlierPostOf("sid1", "aid1", [value |-> "5"])

\* The two requests of the race
Creator == CHOOSE p \in Procs : \A q \in Procs : p <= q
Deleter == CHOOSE p \in Procs : \A q \in Procs : q <= p
RaceKey == toKey(sampleType, nSA)

InitRace ==
  /\ \E cmds \in {<<>>, EarlierPost} :
       /\ hashes = RunHashes(InitHashes, cmds)
       /\ sets = RunSets(InitSets, cmds)
  /\ now = 0
  /\ procs = [p \in Procs |-> Idle]
  /\ left = [p \in Procs |-> 1]

NextRace ==
  \/ Tick
  \/ Posts(Creator, {"sid1"}, {"aid1"}, PlainBodies, {"u1"})
  \/ Upserts(Creator, {nSA, nUpper}, PlainBodies, {"u1"})
  \/ Deletes(Deleter, {nSA, nUpper}, {"u1"})
  \/ \E p \in Procs : PipelineStep(p)
  \/ \E p \in Procs : PostCheck(p)
  \/ \E p \in Procs : SampleWritten(p)
  \/ \E p \in Procs : SampleReturn(p)
  \/ \E p \in Procs : UpsertPrepare(p)
  \/ \E p \in Procs : UpsertReturn(p)
  \/ \E p \in Procs : DeleteCheck(p)
  \/ \E p \in Procs : DeleteReturn(p)

SpecRace == InitRace /\ [][NextRace]_vars

\* Both requests of the race are over
RaceOver == procs[Creator].pc = "done" /\ procs[Deleter].pc = "done"

\* The creator is a postSample, or an upsert of a name that had no hash when
\* it was called
IsCreation ==
  \/ procs[Creator].op = "post"
  \/ procs[Creator].op = "upsert" /\ ~HasHash(procs[Creator].preH, RaceKey)

\* The two requests were in flight together: each started in a store the
\* other had not finished with
Overlapped ==
  /\ procs[Creator].ret = "ok"
  /\ procs[Deleter].ret = "ok"
  /\ ~HasHash(procs[Creator].preH, RaceKey)
  /\ ~HasHash(procs[Deleter].preH, RaceKey)

\* The index holds the name without a hash, or a hash exists outside the index
Torn == InIndex(sets, RaceKey) # HasHash(hashes, RaceKey)

UpdateRaceTorn == RaceOver /\ ~IsCreation /\ Torn

----------------------------------------------------------------------------
(* SpecPerm: the writing operations by writers, by other users and by no    *)
(* user, on the sample of an aspect without writer list (s|a) and of one    *)
(* with the writer list {u1} (s|B), one request after the other             *)

PermNames == {nSA, nSB}

InitPerm ==
  /\ \E cmds \in {<<>>, EarlierPost \o EarlierPostOf("sid1", "aid2", [value |-> "5"])} :
       /\ hashes = RunHashes(InitHashes, cmds)
       /\ sets = RunSets(InitSets, cmds)
  /\ now = 0
  /\ procs = [p \in Procs |-> Idle]
  /\ left = [p \in Procs |-> IF p = 1 THEN MaxOps ELSE 0]

NextPerm ==
  \/ AllResting /\ Tick
  \/ \E p \in Procs : AllResting /\ Upserts(p, PermNames, PlainBodies, Actors)
  \/ \E p \in Procs : AllResting /\ Puts(p, PermNames, PlainBodies, Actors)
  \/ \E p \in Procs : AllResting /\ Patches(p, PermNames, PlainBodies, Actors)
  \/ \E p \in Procs : AllResting /\ Deletes(p, PermNames, Actors)
  \/ \E p \in Procs : AllResting /\ DeleteLinks(p, PermNames, {Undefined}, Actors)
  \/ \E p \in Procs : PipelineStep(p)
  \/ \E p \in Procs : UpsertPrepare(p)
  \/ \E p \in Procs : UpsertReturn(p)
  \/ \E p \in Procs : PutCheck(p)
  \/ \E p \in Procs : PatchCheck(p)
  \/ \E p \in Procs : DeleteCheck(p)
  \/ \E p \in Procs : DeleteReturn(p)
  \/ \E p \in Procs : DeleteLinksCheck(p)
  \/ \E p \in Procs : SampleWritten(p)
  \/ \E p \in Procs : SampleReturn(p)

SpecPerm == InitPerm /\ [][NextPerm]_vars

GuardedOps == {"put", "patch", "delete", "deleteLinks", "upsert"}

\* The sample name a finished request was called with
CalledName(p) ==
  IF procs[p].op = "upsert" THEN NameOf(procs[p].arg.items[1])
  ELSE procs[p].arg.name

\* The writer list of the aspect of the sample the request names
WritersFor(p) ==
  getAspectWriters(procs[p].preS, parseName(toLowerCase(CalledName(p))).aspectName)

\* The request gets as far as its permission check: putSample, deleteSample
\* and deleteSampleRelatedLinks look the sample up first and report a missing
\* one as NotFound; patchSample and upsert check the permission first
ReachesPermissionCheck(p) ==
  \/ procs[p].op \in {"patch", "upsert"}
  \/ HasHash(procs[p].preH, toKey(sampleType, CalledName(p)))

----------------------------------------------------------------------------
(* SpecBulk: bulk upserts of valid, malformed, read-only, forbidden and     *)
(* unpublished items, by the writer u1 and by u2, one request after the     *)
(* other, on an empty cache or on one that holds S|a and S|B                *)

BulkItems ==
  { Named(nSA, [value |-> "5"]),
    Named(nUpper, [value |-> "50"]),
    Named(nSB, [value |-> "50"]),
    Named(nOneSegment, [value |-> "5"]),
    Named(nSA, [value |-> "5", createdAt |-> 0]),
    Named(nUnpublishedAspect, [value |-> "5"]),
    Named(nAbsentSubject, [value |-> "5"]) }

InitBulk == InitPerm

NextBulk ==
  \/ AllResting /\ Tick
  \/ \E p \in Procs : AllResting /\ Bulks(p, BulkItems, Users)
  \/ \E p \in Procs : PipelineStep(p)
  \/ \E p \in Procs : UpsertPrepare(p)
  \/ \E p \in Procs : UpsertReturn(p)

SpecBulk == InitBulk /\ [][NextBulk]_vars

\* An item is malformed, carries a read-only field, is forbidden to the
\* user, or names a subject or an aspect the cache holds no published record of
ItemFails(item, userName, h, s) ==
  LET parsed == parseName(toLowerCase(NameOf(item)))
      writers == smembers(s, toKey(aspWritersType, parsed.aspectName))
  IN \/ ~parsed.ok
     \/ DOMAIN item \cap ReadOnlyFields # {}
     \/ writers # {} /\ userName \notin writers
     \/ ~subjectExists(h, parsed.absolutePath)
     \/ ~aspectExists(h, parsed.aspectName)

ItemKey(item) == toKey(sampleType, NameOf(item))

SlotFails(p, i) ==
  ItemFails(procs[p].arg.items[i], procs[p].arg.user, procs[p].preH, procs[p].preS)

\* C7: a bulk upsert resolves to an array as long as its input; slot i is a
\* failure descriptor exactly when input i is malformed, forbidden or
\* unpublished, and is otherwise the upserted sample that input i names
C7_BulkSlotsAligned ==
  \A p \in Procs :
    Finished(p, "bulk") =>
      /\ procs[p].ret = "ok"
      /\ Len(procs[p].out) = Len(procs[p].arg.items)
      /\ \A i \in 1..Len(procs[p].arg.items) :
           /\ procs[p].out[i].isFailed = SlotFails(p, i)
           /\ ~SlotFails(p, i) =>
                toKey(sampleType, procs[p].out[i].sample.name)
                  = ItemKey(procs[p].arg.items[i])

\* A bulk upsert of a forbidden item followed by a valid one has resolved
C7_Witness ==
  \E p \in Procs :
    /\ Finished(p, "bulk")
    /\ Len(procs[p].arg.items) = 2
    /\ procs[p].arg.user = "u2"
    /\ NameOf(procs[p].arg.items[1]) = nSB
    /\ procs[p].out[1].isFailed
    /\ ~procs[p].out[2].isFailed

\* The keys that only failing items of the call name
FailedOnlyKeys(p) ==
  {ItemKey(procs[p].arg.items[i]) : i \in {j \in 1..Len(procs[p].arg.items) :
      parseName(toLowerCase(NameOf(procs[p].arg.items[j]))).ok}}
  \ {ItemKey(procs[p].arg.items[i]) : i \in {j \in 1..Len(procs[p].arg.items) :
      ~SlotFails(p, j)}}

SampleUntouched(p, key) ==
  /\ hgetall(hashes, key) = hgetall(procs[p].preH, key)
  /\ InIndex(sets, key) = InIndex(procs[p].preS, key)
  /\ InAspectSet(sets, key) = InAspectSet(procs[p].preS, key)
  /\ InSubjectSet(sets, key) = InSubjectSet(procs[p].preS, key)

\* The last item of the call that names the same sample as item i
LastOfKey(p, i) ==
  \A j \in (i + 1)..Len(procs[p].arg.items) :
    SlotFails(p, j) \/ ItemKey(procs[p].arg.items[j]) # ItemKey(procs[p].arg.items[i])

\* C8: after a bulk upsert, the hash and the index entries of a sample that
\* only failing items name are as before the call, and every valid item has
\* been written: its hash exists with the update time of the call (and the
\* item's value, if no later item writes the sample) and its three index
\* entries are there
C8_BulkFailuresWriteNothing ==
  \A p \in Procs :
    Finished(p, "bulk") =>
      /\ \A key \in FailedOnlyKeys(p) : SampleUntouched(p, key)
      /\ \A i \in 1..Len(procs[p].arg.items) :
           ~SlotFails(p, i) =>
             LET key == ItemKey(procs[p].arg.items[i]) IN
             /\ HasHash(hashes, key)
             /\ hashes[key].updatedAt = procs[p].t
             /\ LastOfKey(p, i) => hashes[key].value = procs[p].arg.items[i].value
             /\ InIndex(sets, key)
             /\ InAspectSet(sets, key)
             /\ InSubjectSet(sets, key)

\* A bulk upsert of a forbidden item and of a valid new one has resolved: the
\* new sample is there and the forbidden one, which existed, is as it was
C8_Witness ==
  \E p \in Procs :
    /\ Finished(p, "bulk")
    /\ procs[p].arg.user = "u2"
    /\ \E i, j \in 1..Len(procs[p].arg.items) :
         /\ NameOf(procs[p].arg.items[i]) = nSB
         /\ HasHash(procs[p].preH, ItemKey(procs[p].arg.items[i]))
         /\ ~SlotFails(p, j)
         /\ ~HasHash(procs[p].preH, ItemKey(procs[p].arg.items[j]))
         /\ HasHash(hashes, ItemKey(procs[p].arg.items[j]))

----------------------------------------------------------------------------
(* SpecFields: the sample S|a is posted, put and patched with payloads that *)
(* carry or omit the value, the message fields and the related links        *)

FieldBodies ==
  { EmptyRec,
    [value |-> "5"],
    [value |-> "50", messageBody |-> "m1", messageCode |-> "c1"],
    [messageBody |-> "m2"],
    [value |-> "", relatedLinks |-> <<"l1">>],
    [value |-> "50", relatedLinks |-> <<"l1", "l2">>] }

InitFields == Init

NextFields ==
  \/ AllResting /\ Tick
  \/ \E p \in Procs : AllResting /\ Posts(p, {"sid1"}, {"aid1"}, FieldBodies, {"u1"})
  \/ \E p \in Procs : AllResting /\ Puts(p, {nSA, nUpper}, FieldBodies, {"u1"})
  \/ \E p \in Procs : AllResting /\ Patches(p, {nSA, nUpper}, FieldBodies, {"u1"})
  \/ \E p \in Procs : PipelineStep(p)
  \/ \E p \in Procs : PostCheck(p)
  \/ \E p \in Procs : PutCheck(p)
  \/ \E p \in Procs : PatchCheck(p)
  \/ \E p \in Procs : SampleWritten(p)
  \/ \E p \in Procs : SampleReturn(p)

SpecFields == InitFields /\ [][NextFields]_vars

\* The sample a finished put or patch names, before and after the request
CalledKey(p) == toKey(sampleType, procs[p].arg.name)
StoredBefore(p) == hgetall(procs[p].preH, CalledKey(p))
StoredAfter(p) == hgetall(hashes, CalledKey(p))

\* C9: after a putSample on an existing sample with a payload without
\* messageBody, the stored sample (and the sample returned) has no
\* messageBody, whatever messageBody was stored before
C9_PutClearsMessageBody ==
  \A p \in Procs :
    /\ Finished(p, "put")
    /\ procs[p].ret = "ok"
    /\ ~Has(procs[p].arg.body, "messageBody")
    => /\ ~Has(StoredAfter(p), "messageBody")
       /\ ~Has(procs[p].out[1], "messageBody")

\* A put without messageBody has gone through on a sample that had one
C9_Witness ==
  \E p \in Procs :
    /\ Finished(p, "put")
    /\ procs[p].ret = "ok"
    /\ ~Has(procs[p].arg.body, "messageBody")
    /\ Has(StoredBefore(p), "messageBody")

StatusBookkeeping == {"status", "previousStatus", "statusChangedAt", "updatedAt"}

\* C10: after a patchSample, every stored field that the payload does not
\* carry is as before, apart from status, previousStatus, statusChangedAt and
\* updatedAt when the payload carries a value; a stored messageBody that the
\* payload omits is still there
C10_PatchKeepsAbsentFields ==
  \A p \in Procs :
    Finished(p, "patch") /\ procs[p].ret = "ok" =>
      /\ \A f \in DOMAIN StoredBefore(p) \ DOMAIN procs[p].arg.body :
           \/ (f \in StatusBookkeeping /\ Has(procs[p].arg.body, "value"))
           \/ (Has(StoredAfter(p), f) /\ StoredAfter(p)[f] = StoredBefore(p)[f])
      /\ Has(StoredBefore(p), "messageBody") /\ ~Has(procs[p].arg.body, "messageBody")
           => /\ Has(StoredAfter(p), "messageBody")
              /\ StoredAfter(p).messageBody = StoredBefore(p).messageBody

\* A patch with a value and without messageBody has changed the status of a
\* sample that has a messageBody and related links
C10_Witness ==
  \E p \in Procs :
    /\ Finished(p, "patch")
    /\ procs[p].ret = "ok"
    /\ Has(procs[p].arg.body, "value")
    /\ ~Has(procs[p].arg.body, "messageBody")
    /\ Has(StoredBefore(p), "messageBody")
    /\ StoredAfter(p).status # StoredBefore(p).status

----------------------------------------------------------------------------
(* SpecStatus: the sample S|a is created, upserted, put, patched and its    *)
(* links deleted, with payloads that carry or omit a value, a name in       *)
(* another letter case and a creation time, while the ranges of aspect a    *)
(* may be retuned between two requests                                      *)

\* The ranges of an aspect after its owner swapped them
AspectRetuned(name, published) ==
  [name |-> name, isPublished |-> published,
   criticalRange |-> <<0, 10>>, okRange |-> <<40, 60>>]

\* Between two requests the aspect record of a is rewritten with other ranges
Retune ==
  /\ AllResting
  /\ \E p \in Procs : left[p] > 0
  /\ hashes' = [hashes EXCEPT ![toKey(aspectType, <<"a">>)] =
                  IF @ = AspectHash(<<"a">>, "true")
                  THEN AspectRetuned(<<"a">>, "true")
                  ELSE AspectHash(<<"a">>, "true")]
  /\ UNCHANGED <<sets, now, procs, left>>

\* A creation time a payload may carry: no time the clock shows
Forged == 0 - 1

StatusBodies ==
  { EmptyRec,
    [value |-> "5"],
    [value |-> "50"],
    [value |-> "50", createdAt |-> Forged] }

\* Payloads of put and patch: with and without a name in another letter case
RenamingBodies ==
  { [value |-> "5"], [value |-> "50", name |-> nUpper] }

StatusItems == {Named(nSA, [value |-> "5"]), Named(nUpper, EmptyRec)}

InitStatus == Init

NextStatus ==
  \/ AllResting /\ Tick
  \/ Retune
  \/ \E p \in Procs : AllResting /\ Posts(p, {"sid1"}, {"aid1"}, StatusBodies, {"u1"})
  \/ \E p \in Procs : AllResting /\ Upserts(p, {nSA, nUpper}, StatusBodies, {"u1"})
  \/ \E p \in Procs : AllResting /\ Bulks(p, StatusItems, {"u1"})
  \/ \E p \in Procs : AllResting /\ Puts(p, {nSA}, RenamingBodies, {"u1"})
  \/ \E p \in Procs : AllResting /\ Patches(p, {nSA}, RenamingBodies, {"u1"})
  \/ \E p \in Procs : AllResting /\ DeleteLinks(p, {nSA}, {Undefined}, {"u1"})
  \/ \E p \in Procs : PipelineStep(p)
  \/ \E p \in Procs : PostCheck(p)
  \/ \E p \in Procs : UpsertPrepare(p)
  \/ \E p \in Procs : UpsertReturn(p)
  \/ \E p \in Procs : PutCheck(p)
  \/ \E p \in Procs : PatchCheck(p)
  \/ \E p \in Procs : DeleteLinksCheck(p)
  \/ \E p \in Procs : SampleWritten(p)
  \/ \E p \in Procs : SampleReturn(p)

SpecStatus == InitStatus /\ [][NextStatus]_vars

\* The sample of the specification, before and after the request of p
StatusKey == toKey(sampleType, nSA)
Before(p) == hgetall(procs[p].preH, StatusKey)
After == hgetall(hashes, StatusKey)

\* The status the evaluator computes for a value from the aspect record the
\* request of p found
Evaluated(p, v) ==
  computeStatus(hgetall(procs[p].preH, toKey(aspectType, <<"a">>)), v)

\* The payload of a finished post or single upsert
Payload(p) ==
  IF procs[p].op = "post" THEN procs[p].arg.body ELSE procs[p].arg.items[1]

\* The request of p was a post or a single upsert that created the sample
Created(p) ==
  /\ procs[p].pc = "done"
  /\ procs[p].op \in {"post", "upsert"}
  /\ procs[p].ret = "ok"
  /\ DOMAIN Before(p) = {}

\* C11: a sample created by postSample or by an upsert without previous
\* record is stored with the status computed for its stored value,
\* previousStatus Invalid, and statusChangedAt, createdAt and updatedAt all
\* the time of the creating request; without a value in the payload the
\* stored value is the empty string
C11_CreationDefaults ==
  \A p \in Procs :
    Created(p) =>
      /\ After.status = Evaluated(p, After.value)
      /\ After.previousStatus = Invalid
      /\ After.statusChangedAt = procs[p].t
      /\ After.createdAt = procs[p].t
      /\ After.updatedAt = procs[p].t
      /\ ~Has(Payload(p), "value") => After.value = ""
      /\ Has(Payload(p), "value") => After.value = Payload(p).value

\* An upsert that carries a creation time of its own has created the sample
\* after the clock moved, with a value the evaluator rates Critical
C11_Witness ==
  \E p \in Procs :
    /\ Created(p)
    /\ procs[p].op = "upsert"
    /\ Has(Payload(p), "createdAt")
    /\ procs[p].t > 0
    /\ After.status = "Critical"

\* The item that decides what a finished upsert leaves in the store: the
\* sample of upsertSample, the last item of bulkUpsertByName (every item of
\* this specification names the same sample)
Deciding(p) == procs[p].arg.items[Len(procs[p].arg.items)]

\* The request of p was an upsert, all of whose items were accepted, of a
\* sample that had a record
UpsertedExisting(p) ==
  /\ procs[p].pc = "done"
  /\ \/ procs[p].op = "upsert" /\ procs[p].ret = "ok"
     \/ /\ procs[p].op = "bulk"
        /\ Len(procs[p].arg.items) > 0
        /\ \A i \in 1..Len(procs[p].arg.items) : ~SlotFails(p, i)
  /\ DOMAIN Before(p) # {}

\* The item carries the stored value, or none
SameValue(p) ==
  ~Has(Deciding(p), "value") \/ Deciding(p).value = Before(p).value

\* The status, previous status and time of the last status change of a record
StatusTriple(rec) ==
  <<rec.status, rec.previousStatus, rec.statusChangedAt>>

\* C12: an upsert of an existing sample whose value is the stored value, or
\* that supplies no value, leaves status, previousStatus and statusChangedAt
\* as stored, whatever status the evaluator would now compute
C12_SameValueKeepsStatus ==
  \A p \in Procs :
    UpsertedExisting(p) /\ SameValue(p) =>
      StatusTriple(After) = StatusTriple(Before(p))

\* An upsert repeated the stored value at a later time, after the ranges of
\* the aspect were swapped so that the evaluator rates the value otherwise
C12_Witness ==
  \E p \in Procs :
    /\ UpsertedExisting(p)
    /\ SameValue(p)
    /\ Has(Deciding(p), "value")
    /\ Evaluated(p, Before(p).value) # Before(p).status
    /\ procs[p].t > Before(p).statusChangedAt

\* The item carries another value than the stored one, and the evaluator
\* rates it with another status than the stored one
OtherStatus(p) ==
  /\ Has(Deciding(p), "value")
  /\ Deciding(p).value # Before(p).value
  /\ Evaluated(p, Deciding(p).value) # Before(p).status

\* C13: an upsert of an existing sample with another value that evaluates to
\* another status stores the new status, the status stored before as
\* previousStatus, and the time of the upsert as statusChangedAt, which is
\* not earlier than the stored change time and later once the clock has moved
C13_NewStatusIsRecorded ==
  \A p \in Procs :
    UpsertedExisting(p) /\ OtherStatus(p) =>
      /\ After.status = Evaluated(p, Deciding(p).value)
      /\ After.previousStatus = Before(p).status
      /\ After.statusChangedAt = procs[p].t
      /\ After.statusChangedAt >= Before(p).statusChangedAt
      /\ procs[p].t > Before(p).updatedAt =>
           After.statusChangedAt > Before(p).statusChangedAt

\* A later upsert changed the status of a sample from Ok to Critical
C13_Witness ==
  \E p \in Procs :
    /\ UpsertedExisting(p)
    /\ OtherStatus(p)
    /\ Before(p).status = "Ok"
    /\ After.status = "Critical"
    /\ After.previousStatus = "Ok"
    /\ After.statusChangedAt > Before(p).statusChangedAt

\* A step of a request that found the sample's record keeps the stored name
NameKept ==
  \A p \in Procs :
    ~Resting(p) /\ HasHash(procs[p].preH, StatusKey) =>
      /\ HasHash(hashes', StatusKey)
      /\ hashes'[StatusKey].name = hashes[StatusKey].name

\* The request in flight is a put or a patch whose payload has a name
PayloadNames ==
  \E p \in Procs :
    /\ ~Resting(p)
    /\ procs[p].op \in {"put", "patch"}
    /\ Has(procs[p].arg.body, "name")

\* C14: once a sample is created, no putSample, patchSample, upsertSample,
\* bulkUpsertByName or deleteSampleRelatedLinks changes the name its record
\* holds, also when the payload carries a name
C14_NameNeverChanges == [][NameKept]_vars

\* What the code does keep: the steps of upserts, bulk upserts and link
\* deletions leave the stored name alone, and so do the steps of a put or a
\* patch whose payload has no name
NameKeptUnlessPayloadNames == [][~PayloadNames => NameKept]_vars

\* A put or a patch whose payload has a name in another letter case has
\* resolved on the sample, whose record now holds the payload's name
Renamed ==
  \E p \in Procs :
    /\ procs[p].pc = "done"
    /\ procs[p].op \in {"put", "patch"}
    /\ procs[p].ret = "ok"
    /\ Before(p).name # After.name
    /\ After.name = procs[p].arg.body.name

\* An upsert in another letter case has resolved on the sample, whose record
\* holds the name it was created with
UpsertKeptName ==
  \E p \in Procs :
    /\ UpsertedExisting(p)
    /\ Deciding(p).name # Before(p).name
    /\ After.name = Before(p).name

\* C15: createdAt is set by the creating request only: an upsert of an
\* existing sample leaves the stored createdAt at its creation value,
\* whatever its payload contains, and sets updatedAt to the time of the upsert
C15_CreatedAtIsKept ==
  \A p \in Procs :
    UpsertedExisting(p) =>
      /\ After.createdAt = Before(p).createdAt
      /\ After.updatedAt = procs[p].t

\* What the code does keep: an upsert whose payload has no createdAt leaves
\* the stored creation time alone, and every upsert stamps updatedAt
CreatedAtKeptUnlessPayloadStamps ==
  \A p \in Procs :
    UpsertedExisting(p) =>
      /\ ~Has(Deciding(p), "createdAt") => After.createdAt = Before(p).createdAt
      /\ After.updatedAt = procs[p].t

\* An upsert whose payload has a createdAt has resolved on an existing
\* sample, whose record now holds the payload's creation time
Restamped ==
  \E p \in Procs :
    /\ UpsertedExisting(p)
    /\ Has(Deciding(p), "createdAt")
    /\ After.createdAt = Deciding(p).createdAt
    /\ After.createdAt # Before(p).createdAt

\* A later upsert without a creation time of its own has resolved: the record
\* holds the creation time of before and the update time of the upsert
Updated ==
  \E p \in Procs :
    /\ UpsertedExisting(p)
    /\ ~Has(Deciding(p), "createdAt")
    /\ After.createdAt = Before(p).createdAt
    /\ After.updatedAt > After.createdAt

----------------------------------------------------------------------------
(* SpecLookup: upserts, single by any user and bulk by a writer, of          *)
(* samples whose subject or aspect is missing from the cache or             *)
(* unpublished, while aspect a and subject S are unpublished and published  *)
(* again between two requests                                               *)

nAbsentAspect == <<"s", "|", "z">>
nUnpublishedSubject == <<"u", "|", "a">>

LookupNames ==
  {nSA, nSB, nAbsentSubject, nAbsentAspect, nUnpublishedAspect, nUnpublishedSubject}

LookupItems ==
  {Named(n, [value |-> "50"]) : n \in {nSA, nSB, nAbsentAspect, nUnpublishedSubject}}

\* The records whose publication changes between two requests
Withdrawable == {toKey(aspectType, <<"a">>), toKey(subjectType, <<"s">>)}

\* Between two requests a record of the cache is unpublished, or published
\* again
Withdraw ==
  /\ AllResting
  /\ \E p \in Procs : left[p] > 0
  /\ \E key \in Withdrawable :
       hashes' = [hashes EXCEPT ![key].isPublished =
                    IF @ = "true" THEN "false" ELSE "true"]
  /\ UNCHANGED <<sets, now, procs, left>>

\* The cache holds an unpublished subject u, and either no sample or the
\* samples S|a and S|B of earlier posts
InitLookup ==
  /\ \E cmds \in {<<>>, EarlierPost \o EarlierPostOf("sid1", "aid2", [value |-> "5"])} :
       /\ hashes = RunHashes(InitHashes, cmds) @@
                   (toKey(subjectType, <<"u">>) :>
                      [absolutePath |-> <<"u">>, isPublished |-> "false"])
       /\ sets = RunSets(InitSets, cmds)
  /\ now = 0
  /\ procs = [p \in Procs |-> Idle]
  /\ left = [p \in Procs |-> IF p = 1 THEN MaxOps ELSE 0]

NextLookup ==
  \/ AllResting /\ Tick
  \/ Withdraw
  \/ \E p \in Procs : AllResting /\ Upserts(p, LookupNames, {[value |-> "50"]}, Users)
  \/ \E p \in Procs : AllResting /\ Bulks(p, LookupItems, {"u1"})
  \/ \E p \in Procs : PipelineStep(p)
  \/ \E p \in Procs : UpsertPrepare(p)
  \/ \E p \in Procs : UpsertReturn(p)

SpecLookup == InitLookup /\ [][NextLookup]_vars

\* Item i of the upsert of p names a sample whose subject or whose aspect
\* had no published record in the cache when the request started, and the
\* user may write the aspect
Unpublished(p, i) ==
  LET parsed == parseName(toLowerCase(NameOf(procs[p].arg.items[i])))
      aspName == firstSegment(parsed.aspectName)
  IN /\ parsed.ok
     /\ hasWritePermission(getAspectWriters(procs[p].preS, aspName), procs[p].arg.user)
     /\ \/ ~subjectExists(procs[p].preH, parsed.absolutePath)
        \/ ~aspectExists(procs[p].preH, aspName)

UpsertNotFound ==
  \E p \in Procs :
    /\ Finished(p, "upsert")
    /\ Unpublished(p, 1)
    /\ NameOf(procs[p].arg.items[1]) = nAbsentSubject
    /\ procs[p].ret = "NotFound"

----------------------------------------------------------------------------
(* Query engine: getSample and findSamples                                  *)

\* The UTF-16 code unit of a character, by which Array.prototype.sort and
\* the comparison of strings order them
codeUnit(c) ==
  CASE c = "A" -> 65 [] c = "B" -> 66 [] c = "S" -> 83
    [] c = "a" -> 97 [] c = "b" -> 98 [] c = "c" -> 99
    [] c = "s" -> 115 [] c = "t" -> 116 [] c = "u" -> 117
    [] c = "x" -> 120 [] c = "z" -> 122 [] c = "|" -> 124
    [] OTHER -> 0

\* a < b for two strings (or two keys of one type)
StrLess(a, b) ==
  \E i \in 1..(Len(a) + 1) :
    /\ i <= Len(b)
    /\ \A j \in 1..(i - 1) : a[j] = b[j]
    /\ i > Len(a) \/ (a[i] # b[i] /\ codeUnit(a[i]) < codeUnit(b[i]))

\* Array.prototype.sort on the members of a set of strings
sort(S) ==
  CHOOSE seq \in [1..Cardinality(S) -> S] :
    \A i, j \in 1..Cardinality(S) : i < j => StrLess(seq[i], seq[j])

reverse(seq) == [i \in 1..Len(seq) |-> seq[Len(seq) + 1 - i]]

\* Array.prototype.sort on an array of strings
sortArray(arr) ==
  LET n == Len(arr)
      asc == CHOOSE f \in [1..n -> 1..n] :
               /\ \A i, j \in 1..n : i # j => f[i] # f[j]
               /\ \A i, j \in 1..n : i < j => ~StrLess(arr[f[j]], arr[f[i]])
  IN [i \in 1..n |-> arr[asc[i]]]

\* opts.order === ['name']: the comparison of an array with a new array
\* literal is a comparison of identities, and is false for every order
SameArray(order, literal) == FALSE

\* No filter and no limit: the values of absent options
NoFilter == <<>>
NoLimit == 0

\* modelUtils.applyLimitAndOffset
applyLimitAndOffset(opts, arr) ==
  LET startIndex == opts.offset
      endIndex == IF opts.limit # NoLimit THEN startIndex + opts.limit ELSE Len(arr)
  IN SubSeq(arr, startIndex + 1, IF endIndex < Len(arr) THEN endIndex ELSE Len(arr))

\* cleanAddAspectToSample: the sample with its aspect attached
cleanAddAspectToSample(sampleObj, aspectObj) ==
  Merge([aspect |-> aspectObj], arrayObjsStringsToJson(sampleObj))

\* getSamplesAndAspects: for every sample key, the sample hash and the hash
\* of the aspect the key names are read
RECURSIVE getSamplesAndAspects(_)
getSamplesAndAspects(sampleKeys) ==
  IF sampleKeys = <<>> THEN <<>>
  ELSE << Cmd("hgetall", toLowerCase(Head(sampleKeys)), ""),
          Cmd("hgetall", aspectKeyOf(Head(sampleKeys)), "") >>
       \o getSamplesAndAspects(Tail(sampleKeys))

\* A variant of assembleSampleAspects that keeps a sample whose aspect was
\* not found
RECURSIVE assembleSampleAspectsAnyAspect(_)
assembleSampleAspectsAnyAspect(samplesAndAspects) ==
  IF Len(samplesAndAspects) < 2 THEN <<>>
  ELSE LET sample == samplesAndAspects[1]
           aspect == samplesAndAspects[2]
           rest == assembleSampleAspectsAnyAspect(SubSeq(samplesAndAspects, 3,
                                                         Len(samplesAndAspects)))
       IN IF DOMAIN sample # {}
          THEN <<[sample |-> sample, aspect |-> aspect]>> \o rest
          ELSE rest

\* assembleSampleAspects: the pairs both of whose halves were found
RECURSIVE assembleSampleAspects(_)
assembleSampleAspects(samplesAndAspects) ==
  IF Len(samplesAndAspects) < 2 THEN <<>>
  ELSE LET sample == samplesAndAspects[1]
           aspect == samplesAndAspects[2]
           rest == assembleSampleAspects(SubSeq(samplesAndAspects, 3,
                                                Len(samplesAndAspects)))
       IN IF DOMAIN sample # {} /\ DOMAIN aspect # {}
          THEN <<[sample |-> sample, aspect |-> aspect]>> \o rest
          ELSE rest

\* modelUtils.sortByOrder for the orders by name: the sample objects sorted
\* by their name field, descending for '-name'
sortByOrder(samples, order) ==
  LET n == Len(samples)
      asc == CHOOSE f \in [1..n -> 1..n] :
               /\ \A i, j \in 1..n : i # j => f[i] # f[j]
               /\ \A i, j \in 1..n :
                    i < j => ~StrLess(NameOf(samples[f[j]].sample),
                                      NameOf(samples[f[i]].sample))
      sorted == [i \in 1..n |-> samples[asc[i]]]
  IN IF order = <<"-name">> THEN reverse(sorted) ELSE sorted

\* modelUtils.applyFiltersOnSampleObjs, for the options modelled here: what
\* the keys were not sorted and cut by is sorted and cut on the objects
applyFiltersOnSampleObjs(samples, opts) ==
  IF opts.filter # NoFilter /\ opts.order = <<>> THEN samples
  ELSE applyLimitAndOffset(opts,
         IF opts.order = <<>> THEN samples ELSE sortByOrder(samples, opts.order))

\* applyAttributesFilter: the samples with their aspects attached; it
\* throws on a sample whose stored name does not parse
applyAttributesFilter(samples) ==
  [i \in 1..Len(samples) |->
     cleanAddAspectToSample(samples[i].sample, samples[i].aspect)]

AllNamesParse(samples) ==
  \A i \in 1..Len(samples) : parseName(NameOf(samples[i].sample)).ok

\* The wildcard test of modelUtils: * stands for any run of characters
RECURSIVE matches(_, _)
matches(pattern, str) ==
  IF pattern = <<>> THEN str = <<>>
  ELSE IF Head(pattern) = "*"
  THEN \E k \in 0..Len(str) : matches(Tail(pattern), SubSeq(str, k + 1, Len(str)))
  ELSE str # <<>> /\ Head(str) = Head(pattern) /\ matches(Tail(pattern), Tail(str))

\* modelUtils.filterSampleKeysByName: the keys of the index whose sample
\* name passes the wildcard test of the filter
filterSampleKeysByName(sampleKeys, opts) ==
  {k \in sampleKeys : matches(toLowerCase(opts.filter), NameOfKey(k))}

\* A variant of getSampleKeysUsingMaps that takes every member of the set,
\* whatever the wildcard
getSampleKeysUsingMapsAll(members, subjAsp, hasAspWildCard) ==
  IF hasAspWildCard
  THEN {toKey(sampleType, Join(subjAsp[1], a)) : a \in members}
  ELSE {toKey(sampleType, Join(b, subjAsp[2])) : b \in members}

\* modelUtils.getSampleKeysUsingMaps: the set it reads (the aspects of the
\* subject named exactly, or the subjects of the aspect named exactly) and
\* the sample keys it builds from the members that pass the wildcard test
mapKey(subjAsp, hasAspWildCard) ==
  IF hasAspWildCard THEN toKey(subAspMapType, subjAsp[1])
  ELSE toKey(aspSubMapType, subjAsp[2])

getSampleKeysUsingMaps(members, subjAsp, hasAspWildCard) ==
  IF hasAspWildCard
  THEN {toKey(sampleType, Join(subjAsp[1], a)) :
          a \in {m \in members : matches(toLowerCase(subjAsp[2]), m)}}
  ELSE {toKey(sampleType, Join(b, subjAsp[2])) :
          b \in {m \in members : matches(toLowerCase(subjAsp[1]), m)}}

\* The branch findSamples takes for its options
findBranch(opts) ==
  LET hasOrder == opts.order # <<>>
      hasFilter == opts.filter # NoFilter
      shouldGetAllKeys ==
        ~hasFilter /\ (\/ ~hasOrder
                       \/ SameArray(opts.order, <<"name">>)
                       \/ SameArray(opts.order, <<"-name">>))
      subjAsp == split(opts.filter)
  IN IF shouldGetAllKeys THEN "all"
     ELSE IF hasFilter /\ ~includes(opts.filter, "*")
     THEN (IF Len(splitNames(opts.filter)) = 1 THEN "one" ELSE "many")
     ELSE IF hasFilter /\ Len(subjAsp) = 2
             /\ includes(subjAsp[1], "*") # includes(subjAsp[2], "*")
     THEN "maps"
     ELSE "scan"

\* The request is over; the keys whose hashes it fetched and the replies it
\* got stay on record
FindDone(r, ret, out, replies) ==
  [r EXCEPT !.pc = "done", !.ret = ret, !.out = out, !.cmds = <<>>,
            !.reads = replies, !.cur = EmptyRec]

\* getSample: the sample hash and the aspect hash are read in one batch
GetStart(p, name) ==
  LET sampleName == toLowerCase(name)
      parsed == parseName(sampleName)
      r == Begin(p, "get", [NoArgs EXCEPT !.name = name])
  IN
  /\ CanStart(p)
  /\ Spend(p)
  /\ procs' = [procs EXCEPT ![p] =
       IF ~parsed.ok THEN Done(r, "InvalidName", <<>>)
       ELSE [r EXCEPT !.pc = "get_read", !.name = sampleName,
                      !.cmds = <<getHash(sampleType, sampleName),
                                 getHash(aspectType, parsed.aspectName)>>]]
  /\ UNCHANGED <<hashes, sets, now>>

\* Both halves must be there, else NotFound
GetReturn(p) ==
  LET responses == RepliesAfter(p)
      sample == responses[1]
      aspect == responses[2]
  IN
  /\ LastStep(p, "get_read")
  /\ procs' = [procs EXCEPT ![p] =
       IF DOMAIN sample = {} \/ DOMAIN aspect = {}
       THEN Done(procs[p], "NotFound", <<>>)
       ELSE Done(procs[p], "ok", <<cleanAddAspectToSample(sample, aspect)>>)]

\* findSamples with the feature optimizeSampleFilteredGets: the first round
\* trip reads the index (all keys, or a scan), one of the subject/aspect
\* sets, or, for a filter that names one sample, the sample and its aspect
FindStart(p, opts) ==
  LET branch == findBranch(opts)
      parsed == parseName(opts.filter)
      subjAsp == split(opts.filter)
      nameFilterArr ==
        IF opts.order = <<>> \/ SameArray(opts.order, <<"name">>)
        THEN applyLimitAndOffset(opts, sortArray(splitNames(opts.filter)))
        ELSE splitNames(opts.filter)
      sampleKeys == [i \in 1..Len(nameFilterArr) |->
                       toKey(sampleType, nameFilterArr[i])]
      r == [Begin(p, "find", [NoArgs EXCEPT !.body = opts])
              EXCEPT !.cur = [branch |-> branch]]
  IN
  /\ CanStart(p)
  /\ Spend(p)
  /\ procs' = [procs EXCEPT ![p] =
       CASE branch = "one" /\ ~parsed.ok -> FindDone(r, "InvalidName", <<>>, <<>>)
         [] branch = "one" /\ parsed.ok ->
              [r EXCEPT !.pc = "find_fetch",
                        !.work = <<toKey(sampleType, opts.filter)>>,
                        !.cmds = <<getHash(sampleType, opts.filter),
                                   getHash(aspectType, parsed.aspectName)>>]
         [] branch = "many" ->
              [r EXCEPT !.pc = "find_fetch", !.work = sampleKeys,
                        !.cmds = getSamplesAndAspects(sampleKeys)]
         [] branch = "maps" ->
              [r EXCEPT !.pc = "find_keys",
                        !.cmds = <<Cmd("smembers",
                                       mapKey(subjAsp, includes(subjAsp[2], "*")), "")>>]
         [] OTHER ->
              [r EXCEPT !.pc = "find_keys",
                        !.cmds = <<Cmd("smembers", sampleIndexKey, "")>>]]
  /\ UNCHANGED <<hashes, sets, now>>

\* The keys are there: they are sorted and cut where the branch says so,
\* and the hashes of the keys that remain are requested
FindKeys(p) ==
  LET r == procs[p]
      opts == r.arg.body
      members == smembers(sets, HeadCmd(p).key)
      subjAsp == split(opts.filter)
      found == CASE r.cur.branch = "all" -> members
                 [] r.cur.branch = "maps" ->
                      getSampleKeysUsingMaps(members, subjAsp, includes(subjAsp[2], "*"))
                 [] OTHER -> IF opts.filter # NoFilter
                             THEN filterSampleKeysByName(members, opts)
                             ELSE members
      hasNameFilterOnly == opts.filter # NoFilter
      keys == CASE r.cur.branch = "all" ->
                     applyLimitAndOffset(opts,
                       IF SameArray(opts.order, <<"-name">>)
                       THEN reverse(sort(found)) ELSE sort(found))
                [] r.cur.branch # "all" /\ hasNameFilterOnly
                     /\ (opts.order = <<>> \/ SameArray(opts.order, <<"name">>)) ->
                     applyLimitAndOffset(opts, sort(found))
                [] r.cur.branch # "all" /\ hasNameFilterOnly
                     /\ opts.order # <<>> /\ SameArray(opts.order, <<"-name">>) ->
                     applyLimitAndOffset(opts, reverse(sort(found)))
                [] OTHER -> sort(found)
  IN
  /\ LastStep(p, "find_keys")
  /\ procs' = [procs EXCEPT ![p] =
       [r EXCEPT !.pc = "find_fetch", !.work = keys,
                 !.cmds = getSamplesAndAspects(keys)]]

\* The hashes are there: the pairs with both halves are kept, sorted and cut
\* if the keys were not, and returned with their aspects attached
FindReturn(p) ==
  LET r == procs[p]
      opts == r.arg.body
      joined == assembleSampleAspects(RepliesAfter(p))
      samples == IF r.cur.branch \in {"maps", "scan"}
                 THEN applyFiltersOnSampleObjs(joined, opts)
                 ELSE IF /\ r.cur.branch \in {"one", "many"}
                         /\ Len(joined) > 1
                         /\ opts.order # <<>>
                         /\ ~SameArray(opts.order, <<"name">>)
                 THEN applyLimitAndOffset(opts, sortByOrder(joined, opts.order))
                 ELSE joined
  IN
  /\ LastStep(p, "find_fetch")
  /\ procs' = [procs EXCEPT ![p] =
       IF ~AllNamesParse(samples)
       THEN FindDone(r, "InvalidName", <<>>, RepliesAfter(p))
       ELSE FindDone(r, "ok", applyAttributesFilter(samples), RepliesAfter(p))]

Gets(p, names) == \E n \in names : GetStart(p, n)

Finds(p, options) == \E opts \in options : FindStart(p, opts)

----------------------------------------------------------------------------
(* SpecRead: one request at a time writes (posts and deletes of S|a and     *)
(* S|B) while another reads (getSample, findSamples without filter and with *)
(* a filter that names one sample); the two interleave at every store       *)
(* command, and the cached record of aspect B may be removed and restored   *)

Writer == CHOOSE p \in Procs : \A q \in Procs : p <= q
Reader == CHOOSE p \in Procs : \A q \in Procs : q <= p

Unfiltered == [order |-> <<>>, limit |-> NoLimit, offset |-> 0, filter |-> NoFilter]
Exactly(name) == [Unfiltered EXCEPT !.filter = name]

ReadOptions == {Unfiltered, Exactly(nSA), Exactly(<<"S", "|", "B">>)}

\* The cached record of aspect B is removed, or written again
Drop ==
  /\ left[Reader] > 0
  /\ hashes' = IF toKey(aspectType, <<"b">>) \in DOMAIN hashes
               THEN del(hashes, toKey(aspectType, <<"b">>))
               ELSE hmset(hashes, toKey(aspectType, <<"b">>), AspectHash(<<"B">>, "true"))
  /\ UNCHANGED <<sets, now, procs, left>>

InitRead ==
  /\ \E cmds \in {<<>>, EarlierPost \o EarlierPostOf("sid1", "aid2", [value |-> "5"])} :
       /\ hashes = RunHashes(InitHashes, cmds)
       /\ sets = RunSets(InitSets, cmds)
  /\ now = 0
  /\ procs = [p \in Procs |-> Idle]
  /\ left = [p \in Procs |-> MaxOps - 1]

NextRead ==
  \/ Drop
  \/ Posts(Writer, {"sid1"}, {"aid1", "aid2"}, {[value |-> "5"]}, {"u1"})
  \/ Deletes(Writer, {nSA, nSB}, {"u1"})
  \/ Gets(Reader, {nSA, nSB})
  \/ Finds(Reader, ReadOptions)
  \/ \E p \in Procs : PipelineStep(p)
  \/ \E p \in Procs : PostCheck(p)
  \/ \E p \in Procs : SampleWritten(p)
  \/ \E p \in Procs : SampleReturn(p)
  \/ \E p \in Procs : DeleteCheck(p)
  \/ \E p \in Procs : DeleteReturn(p)
  \/ \E p \in Procs : GetReturn(p)
  \/ \E p \in Procs : FindKeys(p)
  \/ \E p \in Procs : FindReturn(p)

SpecRead == InitRead /\ [][NextRead]_vars

\* A returned sample is whole: it has the fields of a stored sample and the
\* record of its aspect
Whole(obj) ==
  /\ {"name", "value", "status", "aspect"} \subseteq DOMAIN obj
  /\ "name" \in DOMAIN obj.aspect

\* The sample hash and the aspect hash findSamples got for the i-th key it
\* fetched
SampleRead(p, i) == procs[p].reads[2 * i - 1]
AspectRead(p, i) == procs[p].reads[2 * i]

\* One of the two was missing
HalfRead(p, i) == DOMAIN SampleRead(p, i) = {} \/ DOMAIN AspectRead(p, i) = {}

\* The fetched keys both of whose hashes were there, in the order fetched
WholeReads(p) ==
  SelectSeq([i \in 1..Len(procs[p].work) |-> i], LAMBDA i : ~HalfRead(p, i))

\* C17: findSamples does not fail and returns no partial object when an
\* indexed sample lacks its sample hash or its aspect hash: the samples it
\* returns are whole and are, in order, the fetched samples both of whose
\* hashes were there, whatever other requests do meanwhile
C17_FindSkipsHalfSamples ==
  \A p \in Procs :
    Finished(p, "find") =>
      /\ procs[p].ret = "ok"
      /\ \A i \in 1..Len(procs[p].out) : Whole(procs[p].out[i])
      /\ Len(procs[p].out) = Len(WholeReads(p))
      /\ \A n \in 1..Len(procs[p].out) :
           procs[p].out[n] =
             cleanAddAspectToSample(SampleRead(p, WholeReads(p)[n]),
                                    AspectRead(p, WholeReads(p)[n]))

\* An unfiltered find read two indexed samples: the one a post in flight had
\* indexed had no hash yet, and the other was returned
C17_Witness ==
  \E p \in Procs :
    /\ Finished(p, "find")
    /\ procs[p].arg.body.filter = NoFilter
    /\ Len(procs[p].out) > 0
    /\ \E i \in 1..Len(procs[p].work) : DOMAIN SampleRead(p, i) = {}

\* An unfiltered find read two indexed samples: the aspect of one had no
\* record in the cache, and the other was returned
AspectlessSkipped ==
  \E p \in Procs :
    /\ Finished(p, "find")
    /\ procs[p].arg.body.filter = NoFilter
    /\ Len(procs[p].out) > 0
    /\ \E i \in 1..Len(procs[p].work) :
         DOMAIN SampleRead(p, i) # {} /\ DOMAIN AspectRead(p, i) = {}

\* The sample a finished read asked for by name
AskedKey(p) ==
  IF procs[p].op = "get" THEN toKey(sampleType, procs[p].arg.name)
  ELSE toKey(sampleType, procs[p].arg.body.filter)

\* The read of p asked for one sample by name, found its hash and its aspect
\* but not its name in the index, and the store is as the request found it
Unindexed(p) ==
  /\ procs[p].pc = "done"
  /\ \/ procs[p].op = "get"
     \/ procs[p].op = "find" /\ procs[p].arg.body.filter # NoFilter
  /\ HasHash(procs[p].preH, AskedKey(p))
  /\ HasHash(procs[p].preH, aspectKeyOf(AskedKey(p)))
  /\ ~InIndex(procs[p].preS, AskedKey(p))
  /\ Unchanged(p)

\* C18: a sample whose hash exists but whose name is not in the index is
\* absent for every read: getSample rejects with NotFound and findSamples,
\* also with a filter that names the sample exactly, does not return it
C18_UnindexedIsAbsent ==
  \A p \in Procs :
    Unindexed(p) =>
      IF procs[p].op = "get" THEN procs[p].ret = "NotFound"
      ELSE procs[p].out = <<>>

\* getSample has returned a sample whose name a delete in flight had taken
\* out of the index
GetReturnsUnindexed ==
  \E p \in Procs :
    /\ Unindexed(p)
    /\ procs[p].op = "get"
    /\ procs[p].ret = "ok"
    /\ toKey(sampleType, procs[p].out[1].name) = AskedKey(p)

\* findSamples with a filter that names the sample has returned it likewise
FindReturnsUnindexed ==
  \E p \in Procs :
    /\ Unindexed(p)
    /\ procs[p].op = "find"
    /\ Len(procs[p].out) = 1

\* What the code does keep: a find without filter fetches no key but those
\* it read from the index
UnfilteredFindReadsIndex ==
  [][\A p \in Procs :
       /\ procs[p].pc = "find_keys" /\ procs'[p].pc = "find_fetch"
       /\ procs[p].arg.body.filter = NoFilter
       => \A i \in 1..Len(procs'[p].work) : InIndex(sets, procs'[p].work[i])]_vars

----------------------------------------------------------------------------
(* SpecFind: requests run one after the other; samples of the subjects S    *)
(* and t are upserted and deleted, and findSamples is called with every     *)
(* order by name, with and without limit and offset, without filter and     *)
(* with a wildcard on one side of the name                                  *)

MaxLimit == 1
MaxOffset == 1

Star == <<"*">>

\* Filters with the wildcard in the subject part only, or in the aspect part
\* only
OneSidedFilters ==
  { Join(<<"s">>, Star), Join(Star, <<"a">>), Join(Star, <<"x">>),
    Join(<<"s">>, <<"a", "*">>), Join(<<"*", "t">>, <<"b">>) }

FindOptions ==
  [order : {<<>>, <<"name">>, <<"-name">>},
   limit : {NoLimit} \cup 1..MaxLimit,
   offset : 0..MaxOffset,
   filter : {NoFilter} \cup OneSidedFilters]

FindNames == {nSA, nSB, nAbsentSubject, nCompound}

\* The cache holds the published subjects S and t, and either no sample or
\* the samples S|a and S|B of earlier posts
InitFind ==
  /\ \E cmds \in {<<>>, EarlierPost \o EarlierPostOf("sid1", "aid2", [value |-> "5"])} :
       /\ hashes = RunHashes(InitHashes, cmds) @@
                   (toKey(subjectType, <<"t">>) :>
                      [absolutePath |-> <<"t">>, isPublished |-> "true"])
       /\ sets = RunSets(InitSets, cmds)
  /\ now = 0
  /\ procs = [p \in Procs |-> Idle]
  /\ left = [p \in Procs |-> IF p = 1 THEN MaxOps ELSE 0]

NextFind ==
  \/ \E p \in Procs : AllResting /\ Upserts(p, FindNames, {[value |-> "50"]}, {"u1"})
  \/ \E p \in Procs : AllResting /\ Deletes(p, {nSA, nSB}, {"u1"})
  \/ \E p \in Procs : AllResting /\ Finds(p, FindOptions)
  \/ \E p \in Procs : PipelineStep(p)
  \/ \E p \in Procs : UpsertPrepare(p)
  \/ \E p \in Procs : UpsertReturn(p)
  \/ \E p \in Procs : DeleteCheck(p)
  \/ \E p \in Procs : DeleteReturn(p)
  \/ \E p \in Procs : FindKeys(p)
  \/ \E p \in Procs : FindReturn(p)

SpecFind == InitFind /\ [][NextFind]_vars

\* The index as the request of p found it, sorted, descending for '-name',
\* and the page the options cut from it
SortedIndex(p) ==
  IF procs[p].arg.body.order = <<"-name">>
  THEN reverse(sort(smembers(procs[p].preS, sampleIndexKey)))
  ELSE sort(smembers(procs[p].preS, sampleIndexKey))

Page(p) == applyLimitAndOffset(procs[p].arg.body, SortedIndex(p))

\* The sample keys of the objects a find returned, in order
Returned(p) ==
  [i \in 1..Len(procs[p].out) |-> toKey(sampleType, procs[p].out[i].name)]

\* A find without filter has resolved
UnfilteredFound(p) ==
  /\ Finished(p, "find")
  /\ procs[p].ret = "ok"
  /\ procs[p].arg.body.filter = NoFilter

\* C19: without filter and with the order absent, 'name' or '-name',
\* findSamples sorts the whole index (descending for '-name'), cuts the page
\* from the sorted names and only then fetches hashes: the hashes it reads
\* are those of the page, at most limit of them, and the result is the page
\* in that order (without the samples that lack a hash)
C19_PageBeforeFetch ==
  \A p \in Procs :
    UnfilteredFound(p) =>
      /\ procs[p].work = Page(p)
      /\ procs[p].arg.body.limit # NoLimit =>
           Len(procs[p].work) <= procs[p].arg.body.limit
      /\ Returned(p) = SelectSeq(Page(p), LAMBDA k : k \in joinable(procs[p].preH, {k}))

\* What the code does keep: with the order absent the page is cut before the
\* hashes are fetched
PageBeforeFetchWithoutOrder ==
  \A p \in Procs :
    UnfilteredFound(p) /\ procs[p].arg.body.order = <<>> =>
      /\ procs[p].work = Page(p)
      /\ Returned(p) = SelectSeq(Page(p), LAMBDA k : k \in joinable(procs[p].preH, {k}))

\* A find ordered by name with limit 1 has fetched the hashes of more than
\* one sample
FetchedBeyondLimit ==
  \E p \in Procs :
    /\ UnfilteredFound(p)
    /\ procs[p].arg.body.order = <<"name">>
    /\ procs[p].arg.body.limit # NoLimit
    /\ Len(procs[p].work) > procs[p].arg.body.limit

\* A find without order has cut the second page of one name from an index
\* of three and fetched that one sample
PagedWithoutOrder ==
  \E p \in Procs :
    /\ UnfilteredFound(p)
    /\ procs[p].arg.body.order = <<>>
    /\ procs[p].arg.body.limit # NoLimit
    /\ procs[p].arg.body.offset > 0
    /\ Cardinality(smembers(procs[p].preS, sampleIndexKey)) > 2
    /\ Len(procs[p].out) = 1

\* The sample keys a one-sided wildcard filter resolves to through the
\* subject/aspect sets, and by matching every name of the sample index
ThroughMaps(s, filter) ==
  LET subjAsp == split(filter)
      hasAspWildCard == includes(subjAsp[2], "*")
  IN getSampleKeysUsingMaps(smembers(s, mapKey(subjAsp, hasAspWildCard)),
                            subjAsp, hasAspWildCard)

ThroughIndex(s, filter) ==
  filterSampleKeysByName(smembers(s, sampleIndexKey), [filter |-> filter])

\* Every indexed sample has a name of two segments
TwoSegments(s) ==
  \A k \in smembers(s, sampleIndexKey) : Len(split(NameOfKey(k))) = 2

\* The two resolutions agree on every one-sided filter
MapsAgreeWithIndex ==
  \A f \in OneSidedFilters : ThroughMaps(sets, f) = ThroughIndex(sets, f)

\* A find with a one-sided wildcard filter has resolved
MapsFound(p) ==
  /\ Finished(p, "find")
  /\ procs[p].ret = "ok"
  /\ procs[p].arg.body.filter \in OneSidedFilters

\* The keys a finished find with a one-sided filter fetched, if nothing was
\* cut off, are those that match the filter among the names of the index
FoundThroughMaps(p) ==
  procs[p].arg.body.limit = NoLimit /\ procs[p].arg.body.offset = 0 =>
    {procs[p].work[i] : i \in 1..Len(procs[p].work)}
      = ThroughIndex(procs[p].preS, procs[p].arg.body.filter)

CompoundNameDiverges ==
  \E p \in Procs :
    /\ MapsFound(p)
    /\ procs[p].arg.body.filter = Join(Star, <<"x">>)
    /\ InIndex(procs[p].preS, toKey(sampleType, nCompound))
    /\ procs[p].work = <<>>
    /\ ThroughMaps(sets, Join(Star, <<"x">>)) = {}
    /\ ThroughIndex(sets, Join(Star, <<"x">>)) = {toKey(sampleType, nCompound)}

----------------------------------------------------------------------------
(* parseName as a function of the name it is given *)

MaxLen == 5       \* characters of a name given to parseName

NameAlphabet == {"s", "a", sampleNameSeparator}

\* What a caller hands to parseName: an object without a name (the name is
\* undefined) or with a name of up to MaxLen characters, the empty one
\* included
ParseInputs ==
  {EmptyRec} \cup {[name |-> n] : n \in Sequences(NameAlphabet, MaxLen)}

\* name || ''
orEmpty(given) == IF Has(given, "name") THEN given.name ELSE <<>>

\* `Invalid sample name "${name}"`: the explanation of the
\* ResourceNotFoundError, with the name as it was given
invalidSampleName(given) ==
  <<"Invalid sample name ", "\"">>
    \o (IF Has(given, "name") THEN given.name ELSE <<Undefined>>)
    \o <<"\"">>

\* A call of parseName: it returns the parsed name or throws
ParseName(p, given) ==
  LET parsed == parseName(orEmpty(given))
      r == Begin(p, "parse", [NoArgs EXCEPT !.body = given])
  IN
  /\ CanStart(p)
  /\ Spend(p)
  /\ procs' = [procs EXCEPT ![p] =
       IF parsed.ok
       THEN Done(r, "ok", <<[subject |-> [absolutePath |-> parsed.absolutePath],
                             aspect |-> [name |-> parsed.aspectName]]>>)
       ELSE Done(r, "ResourceNotFoundError", invalidSampleName(given))]
  /\ UNCHANGED <<hashes, sets, now>>

Parses(p, inputs) == \E given \in inputs : ParseName(p, given)

InitParse ==
  /\ hashes = InitHashes
  /\ sets = InitSets
  /\ now = 0
  /\ procs = [p \in Procs |-> Idle]
  /\ left = [p \in Procs |-> IF p = 1 THEN MaxOps ELSE 0]

NextParse == \E p \in Procs : Parses(p, ParseInputs)

SpecParse == InitParse /\ [][NextParse]_vars

\* The separators of the name a call was given, counted one by one
Separators(given) ==
  Cardinality({i \in 1..Len(orEmpty(given)) :
                 orEmpty(given)[i] = sampleNameSeparator})

Parsed(p) == Finished(p, "parse") /\ procs[p].ret = "ok"

\* C21: parseName returns exactly for the names with one or two separators
\* (two or three segments); for a missing or empty name, a name without a
\* separator and a name with three or more separators it throws the
\* ResourceNotFoundError whose explanation quotes the name as given
C21_ParseNameAcceptsTwoOrThree ==
  \A p \in Procs :
    Finished(p, "parse") =>
      LET given == procs[p].arg.body IN
      /\ Parsed(p) <=> Separators(given) \in {1, 2}
      /\ ~Parsed(p) =>
           /\ procs[p].ret = "ResourceNotFoundError"
           /\ procs[p].out = invalidSampleName(given)

\* A name of four segments has been rejected, with the name in the error
C21_Witness ==
  \E p \in Procs :
    /\ Finished(p, "parse")
    /\ procs[p].arg.body = [name |-> <<"s", "|", "a", "|", "|">>]
    /\ procs[p].ret = "ResourceNotFoundError"
    /\ procs[p].out =
         <<"Invalid sample name ", "\"", "s", "|", "a", "|", "|", "\"">>

\* A call without a name has been rejected
MissingNameRejected ==
  \E p \in Procs :
    /\ Finished(p, "parse")
    /\ procs[p].arg.body = EmptyRec
    /\ procs[p].ret = "ResourceNotFoundError"

\* C22: for every name parseName accepts, the subject's absolutePath, the
\* separator and the aspect name, joined, are the name it was given, for
\* names of two and of three segments
C22_ParseNameRoundTrips ==
  \A p \in Procs :
    Parsed(p) =>
      Join(procs[p].out[1].subject.absolutePath, procs[p].out[1].aspect.name)
        = procs[p].arg.body.name

\* A name of three segments has been parsed: its aspect name holds the
\* separator
C22_Witness ==
  \E p \in Procs :
    /\ Parsed(p)
    /\ procs[p].arg.body.name = <<"s", "|", "a", "|", "s">>
    /\ procs[p].out[1].subject.absolutePath = <<"s">>
    /\ procs[p].out[1].aspect.name = <<"a", "|", "s">>

----------------------------------------------------------------------------
(* What deleteSample resolves to, under Spec *)

\* A deleteSample has resolved
Deleted(p) == Finished(p, "delete") /\ procs[p].ret = "ok"

\* The hash the deletion found, as the caller would have read it
Snapshot(p) ==
  arrayObjsStringsToJson(procs[p].preH[toKey(sampleType, CalledName(p))])

\* The sample a deleteSample resolved to
Resolved(p) == procs[p].out[1]

\* C23: deleteSample resolves to the sample as it was stored immediately
\* before the deletion: every field of the returned object, updatedAt
\* included, equals the field of the hash that was deleted
C23_DeleteReturnsSnapshot ==
  \A p \in Procs : Deleted(p) => Resolved(p) = Snapshot(p)

\* What the code does keep: the resolved sample has the fields of the
\* deleted hash, each with the stored value but updatedAt, which is the
\* time of the deletion
DeleteRestampsSnapshot ==
  \A p \in Procs :
    Deleted(p) =>
      /\ DOMAIN Resolved(p) = DOMAIN Snapshot(p)
      /\ \A f \in DOMAIN Snapshot(p) \ {"updatedAt"} :
           Resolved(p)[f] = Snapshot(p)[f]
      /\ Resolved(p).updatedAt = procs[p].t

\* A sample written at time 0 has been deleted at time 1 and came back with
\* updatedAt 1
DeletedRestamped ==
  \E p \in Procs :
    /\ Deleted(p)
    /\ Snapshot(p).updatedAt = 0
    /\ Resolved(p).updatedAt = 1
    /\ ~HasHash(hashes, toKey(sampleType, CalledName(p)))

----------------------------------------------------------------------------
(* SpecWrite: two writes (putSample, patchSample, upsert) of the existing   *)
(* sample S|a in flight together, their round trips in any order            *)

WriteBodies ==
  {[value |-> "5"], [value |-> "50"], [value |-> "50", messageBody |-> "m1"]}

\* The cache the two writes find: S|a posted at time 0 with the value 5
WriteHashes == RunHashes(InitHashes, EarlierPost)

InitWrite ==
  /\ hashes = WriteHashes
  /\ sets = RunSets(InitSets, EarlierPost)
  /\ now = MaxTime
  /\ procs = [p \in Procs |-> Idle]
  /\ left = [p \in Procs |-> 1]

NextWrite ==
  \/ \E p \in Procs : Puts(p, {nSA}, WriteBodies, {"u1"})
  \/ \E p \in Procs : Patches(p, {nSA}, WriteBodies, {"u1"})
  \/ \E p \in Procs : Upserts(p, {nSA}, WriteBodies, {"u1"})
  \/ \E p \in Procs : PipelineStep(p)
  \/ \E p \in Procs : PutCheck(p)
  \/ \E p \in Procs : PatchCheck(p)
  \/ \E p \in Procs : UpsertPrepare(p)
  \/ \E p \in Procs : UpsertReturn(p)
  \/ \E p \in Procs : SampleWritten(p)
  \/ \E p \in Procs : SampleReturn(p)

SpecWrite == InitWrite /\ [][NextWrite]_vars

\* The hashes a write leaves when it runs alone, from its first round trip
\* to its last, on the hashes h: the request r of a put, a patch or an upsert
SerialWrite(h, r) ==
  LET cur == hgetall(h, StatusKey)
      reqBody == removeExtraAttributes(r.arg.body, sampleFieldsArr)
  IN
  CASE r.op = "put" ->
         RunHashes(h, PutCmds(r.arg.name, r.arg.body,
           PutFields(r.arg.body, cur,
             calculateSampleStatus(h, r.arg.name,
               IF Truthy(reqBody, "value") THEN reqBody.value ELSE ""),
             r.t)))
    [] r.op = "patch" ->
         RunHashes(h, <<setHashMulti(sampleType, r.arg.name,
           PatchFields(r.arg.body, cur,
             calculateSampleStatus(h, r.arg.name,
               IF Has(reqBody, "value") THEN reqBody.value ELSE Undefined),
             r.t))>>)
    [] r.op = "upsert" ->
         RunHashes(h, UpsertCmds(
           <<prepareSampleForUpsert(r.arg.items[1],
               sampleAttributes(h, sets, r.arg.items[1], cur),
               r.arg.user, r.t)>>,
           r.arg.user))
    [] OTHER -> h

\* The sample the two writes leave when the first runs to its end before the
\* second starts
SerialOrder(first, second) ==
  hgetall(SerialWrite(SerialWrite(WriteHashes, procs[first]), procs[second]),
          StatusKey)

\* Both writes are over and have resolved
BothWritten ==
  \A p \in Procs : procs[p].pc = "done" /\ procs[p].ret = "ok"

\* C24: however the round trips of two writes of the same existing sample
\* interleave, the hash they leave is the one that one of the two serial
\* orders of the same writes leaves, never a mixture of the two
C24_LastWriterWins ==
  BothWritten =>
    After \in {SerialOrder(Creator, Deleter), SerialOrder(Deleter, Creator)}

\* A write that ran alone, the other not started, has left the hash that
\* SerialWrite computes for it
OneWriteIsSerial ==
  \A p, q \in Procs :
    /\ procs[p].pc = "done" /\ procs[p].ret = "ok" /\ procs[q].pc = "idle"
    => After = hgetall(SerialWrite(WriteHashes, procs[p]), StatusKey)

\* What the code does keep: every field of the hash the two writes leave
\* has the value one serial order gives it or the value the other gives it,
\* or is cleared by one of them
FieldsAreWritten ==
  BothWritten =>
    \A f \in DOMAIN After :
      \E o \in {SerialOrder(Creator, Deleter), SerialOrder(Deleter, Creator),
                hgetall(SerialWrite(WriteHashes, procs[Creator]), StatusKey),
                hgetall(SerialWrite(WriteHashes, procs[Deleter]), StatusKey)} :
        Has(o, f) /\ o[f] = After[f]

\* A patch with the value 5 and a patch with the value 50 have both read
\* the stored sample (value 5, status Ok) before either wrote: the hash is
\* left with the value 5 of the one and the status Critical of the other
MixedWrite ==
  /\ BothWritten
  /\ \A p \in Procs : procs[p].op = "patch"
  /\ {procs[p].arg.body : p \in Procs} = {[value |-> "5"], [value |-> "50"]}
  /\ After.value = "5"
  /\ After.status = "Critical"
  /\ \A o \in {SerialOrder(Creator, Deleter), SerialOrder(Deleter, Creator)} :
       o.value = "5" => o.status = "Ok"

----------------------------------------------------------------------------
(* The order of the commands of a creating pipeline, under Spec *)

\* The sample hashes that exist now and did not exist when the request of p
\* started
CreatedKeys(p) ==
  {key \in DOMAIN hashes : key[1] = sampleType /\ ~HasHash(procs[p].preH, key)}

\* The request of p is between its first and its last round trip
InFlight(p, ops) == procs[p].op \in ops /\ ~Resting(p)

\* C25: in every pipeline that creates a sample (postSample, the upsert of a
\* new sample) the three index insertions come before the write of the
\* hash: wherever the pipeline is cut short, a sample hash it has written
\* has its entry in the sample index, in the subject's aspect set and in
\* the aspect's subject set
C25_IndexBeforeHash ==
  \A p \in Procs :
    InFlight(p, {"post", "upsert", "bulk"}) =>
      \A key \in CreatedKeys(p) :
        InIndex(sets, key) /\ InSubjectSet(sets, key) /\ InAspectSet(sets, key)

\* What the code does keep: postSample writes the hash after its three
\* index entries; an upsert writes it after the subject's aspect set and
\* the sample index
IndexBeforeHashButAspectSet ==
  \A p \in Procs :
    /\ InFlight(p, {"post"}) =>
         \A key \in CreatedKeys(p) :
           InIndex(sets, key) /\ InSubjectSet(sets, key) /\ InAspectSet(sets, key)
    /\ InFlight(p, {"upsert", "bulk"}) =>
         \A key \in CreatedKeys(p) : InIndex(sets, key) /\ InSubjectSet(sets, key)

\* An upsert of the new sample S|a has written the hash, and the command
\* that adds the subject to the aspect's subject set is still to come
HashBeforeAspectSet ==
  \E p \in Procs :
    /\ InFlight(p, {"upsert"})
    /\ toKey(sampleType, nSA) \in CreatedKeys(p)
    /\ ~InAspectSet(sets, toKey(sampleType, nSA))
    /\ HeadCmd(p) = addSubjectAbsPathInAspectSet(<<"a">>, <<"s">>)

\* A postSample has written its three index entries, and the write of the
\* hash is still to come
PostIndexedBeforeHash ==
  \E p \in Procs :
    /\ InFlight(p, {"post"})
    /\ procs[p].cmds # <<>>
    /\ HeadCmd(p).op = "hmset"
    /\ InIndex(sets, HeadCmd(p).key)
    /\ InSubjectSet(sets, HeadCmd(p).key)
    /\ InAspectSet(sets, HeadCmd(p).key)
    /\ ~HasHash(hashes, HeadCmd(p).key)

----------------------------------------------------------------------------
(* The two round trips of bulkUpsertByName, under SpecBulk *)

\* Item i of the call of p, prepared against the store as it was before the
\* call
PreparedBefore(p, i) ==
  LET item == procs[p].arg.items[i] IN
  prepareSampleForUpsert(item,
    sampleAttributes(procs[p].preH, procs[p].preS, item,
                     hgetall(procs[p].preH, ItemKey(item))),
    procs[p].arg.user, procs[p].t)

\* Two items of the call of p name the same sample and neither fails
SameName(p, i, j) ==
  /\ i < j
  /\ j <= Len(procs[p].arg.items)
  /\ ~SlotFails(p, i) /\ ~SlotFails(p, j)
  /\ ItemKey(procs[p].arg.items[i]) = ItemKey(procs[p].arg.items[j])

\* C26: bulkUpsertByName reads in one round trip before any write and
\* writes in one later round trip: nothing is written while it reads, every
\* item is prepared against the record stored before the call, also when
\* an earlier item of the call names the same sample, and of two items
\* with the same name the later one is written last, so its fields are the
\* ones the hash is left with
C26_BulkReadsThenWrites ==
  \A p \in Procs :
    /\ procs[p].op = "bulk" /\ procs[p].pc = "ups_read" => Unchanged(p)
    /\ procs[p].op = "bulk" /\ procs[p].pc = "ups_write" =>
         \A i \in 1..Len(procs[p].arg.items) :
           ~SlotFails(p, i) => procs[p].work[i] = PreparedBefore(p, i)
    /\ Finished(p, "bulk") /\ procs[p].ret = "ok" =>
         \A i, j \in 1..Len(procs[p].arg.items) :
           SameName(p, i, j) =>
             \A f \in DOMAIN PreparedBefore(p, j).sample :
               hashes[ItemKey(procs[p].arg.items[j])][f]
                 = PreparedBefore(p, j).sample[f]

\* A bulk upsert of S|a with the value 5 and then with the value 50 on a
\* cache that held S|a with the value 5 has resolved: the hash has the
\* value 50, and the previous status is the stored one, not one the first
\* item wrote
C26_Witness ==
  \E p \in Procs :
    /\ Finished(p, "bulk")
    /\ procs[p].ret = "ok"
    /\ SameName(p, 1, 2)
    /\ HasHash(procs[p].preH, ItemKey(procs[p].arg.items[1]))
    /\ procs[p].arg.items[1].value = "5"
    /\ procs[p].arg.items[2].value = "50"
    /\ hashes[ItemKey(procs[p].arg.items[2])].value = "50"
    /\ hashes[ItemKey(procs[p].arg.items[2])].status = "Critical"
    /\ hashes[ItemKey(procs[p].arg.items[2])].previousStatus
         = procs[p].preH[ItemKey(procs[p].arg.items[2])].status

\* The same two items in the other order: the hash is left with the value 5
LaterItemWins ==
  \E p \in Procs :
    /\ Finished(p, "bulk")
    /\ SameName(p, 1, 2)
    /\ procs[p].arg.items[1].value = "50"
    /\ procs[p].arg.items[2].value = "5"
    /\ hashes[ItemKey(procs[p].arg.items[2])].value = "5"

----------------------------------------------------------------------------
(* Another value with the same status, under SpecStatus *)

\* The item carries another value than the stored one, and the evaluator
\* rates it with the stored status
OtherValueSameStatus(p) ==
  /\ Has(Deciding(p), "value")
  /\ Deciding(p).value # Before(p).value
  /\ Evaluated(p, Deciding(p).value) = Before(p).status

\* C27: an upsert of an existing sample with another value that evaluates to
\* the stored status keeps the stored previousStatus and statusChangedAt
\* and stores the recomputed, same, status with the new value
C27_SameStatusKeepsHistory ==
  \A p \in Procs :
    UpsertedExisting(p) /\ OtherValueSameStatus(p) =>
      /\ After.value = Deciding(p).value
      /\ After.status = Evaluated(p, Deciding(p).value)
      /\ After.status = Before(p).status
      /\ After.previousStatus = Before(p).previousStatus
      /\ After.statusChangedAt = Before(p).statusChangedAt

\* A sample stored with the value 5 and the status Ok was upserted with the
\* value 50 at a later time, after the ranges of the aspect were swapped so
\* that 50 is rated Ok: the change time is still the earlier one
C27_Witness ==
  \E p \in Procs :
    /\ UpsertedExisting(p)
    /\ OtherValueSameStatus(p)
    /\ Before(p).value = "5"
    /\ Before(p).status = "Ok"
    /\ After.value = "50"
    /\ After.status = "Ok"
    /\ procs[p].t > Before(p).statusChangedAt
    /\ After.statusChangedAt < After.updatedAt

----------------------------------------------------------------------------
(* The frame of the writes to an existing sample, under Spec *)

\* The key of the sample the request of p names
WrittenKey(p) == toKey(sampleType, CalledName(p))

\* The request of p is a putSample, a patchSample, a
\* deleteSampleRelatedLinks, or a single upsert of a sample that had a hash
\* when the request started
WritesExisting(p) ==
  /\ procs[p].pc # "idle"
  /\ \/ procs[p].op \in {"put", "patch", "deleteLinks"}
     \/ procs[p].op = "upsert" /\ HasHash(procs[p].preH, WrittenKey(p))

\* C28: an upsert of a sample whose hash exists, and every putSample,
\* patchSample and deleteSampleRelatedLinks, writes the sample hash only: at
\* every point of the request the sample index, the subjects' aspect sets
\* and the aspects' subject sets (every set of the store) and every other
\* hash are as they were when it started
C28_OnlyTheHashIsWritten ==
  \A p \in Procs :
    WritesExisting(p) =>
      /\ sets = procs[p].preS
      /\ \A key \in (DOMAIN hashes \cup DOMAIN procs[p].preH) \ {WrittenKey(p)} :
           hgetall(hashes, key) = hgetall(procs[p].preH, key)

\* An upsert has changed the hash of a sample that a postSample created, and
\* the sets are as before
C28_Witness ==
  \E p \in Procs :
    /\ Finished(p, "upsert")
    /\ procs[p].ret = "ok"
    /\ HasHash(procs[p].preH, WrittenKey(p))
    /\ hashes[WrittenKey(p)] # procs[p].preH[WrittenKey(p)]
    /\ smembers(sets, toKey(parentAspectType, <<"a">>)) = {}
    /\ InIndex(sets, WrittenKey(p))
    /\ sets = procs[p].preS

\* A putSample, a patchSample and a deleteSampleRelatedLinks have changed
\* the hash of a sample
HashRewritten(op) ==
  \E p \in Procs :
    /\ Finished(p, op)
    /\ procs[p].ret = "ok"
    /\ hashes[WrittenKey(p)] # procs[p].preH[WrittenKey(p)]
    /\ sets = procs[p].preS

PutRewritten == HashRewritten("put")
PatchRewritten == HashRewritten("patch")
LinksRewritten == HashRewritten("deleteLinks")

----------------------------------------------------------------------------
(* SpecLinks: the sample S|a is posted with and without related links, and  *)
(* its links are deleted, all of them or one by name, one request after the *)
(* other                                                                    *)

LinkBodies ==
  { [value |-> "5"],
    [value |-> "5", relatedLinks |-> <<"l1">>],
    [value |-> "5", relatedLinks |-> <<"l1", "l2">>] }

LinkNames == {Undefined, "l1", "l2"}

InitLinks == Init

NextLinks ==
  \/ AllResting /\ Tick
  \/ \E p \in Procs : AllResting /\ Posts(p, {"sid1"}, {"aid1"}, LinkBodies, {"u1"})
  \/ \E p \in Procs : AllResting /\ DeleteLinks(p, {nSA}, LinkNames, {"u1"})
  \/ \E p \in Procs : PipelineStep(p)
  \/ \E p \in Procs : PostCheck(p)
  \/ \E p \in Procs : DeleteLinksCheck(p)
  \/ \E p \in Procs : SampleWritten(p)
  \/ \E p \in Procs : SampleReturn(p)

SpecLinks == InitLinks /\ [][NextLinks]_vars

\* A deleteSampleRelatedLinks has resolved
LinksDeleted(p) == Finished(p, "deleteLinks") /\ procs[p].ret = "ok"

\* The links the request of p leaves are the links that were stored: the
\* named link was not among them, or there were none
LinksAsBefore(p) ==
  LET links == parseLinks(StoredBefore(p).relatedLinks) IN
  IF procs[p].arg.relName = Undefined THEN links = <<>>
  ELSE deleteAJsonArrayElement(links, procs[p].arg.relName) = links

\* C29: a deleteSampleRelatedLinks that leaves the stored related links as
\* they are (the named link is not stored, or no link is) writes nothing to
\* the sample hash: every field, updatedAt included, is as before
C29_NoChangeNoWrite ==
  \A p \in Procs :
    LinksDeleted(p) /\ LinksAsBefore(p) => StoredAfter(p) = StoredBefore(p)

\* What the code does keep: such a request leaves every field but updatedAt
\* as it was, and sets updatedAt to the time of the request
NoChangeRestamps ==
  \A p \in Procs :
    LinksDeleted(p) /\ LinksAsBefore(p) =>
      /\ DOMAIN StoredAfter(p) = DOMAIN StoredBefore(p)
      /\ \A f \in DOMAIN StoredBefore(p) \ {"updatedAt"} :
           StoredAfter(p)[f] = StoredBefore(p)[f]
      /\ StoredAfter(p).updatedAt = procs[p].t

\* The link l2 was deleted at time 1 from a sample posted at time 0 with
\* the link l1 alone: the links are as before and updatedAt is 1
UnchangedLinksRestamped ==
  \E p \in Procs :
    /\ LinksDeleted(p)
    /\ LinksAsBefore(p)
    /\ procs[p].arg.relName = "l2"
    /\ StoredBefore(p).relatedLinks = "[l1]"
    /\ StoredAfter(p).relatedLinks = "[l1]"
    /\ StoredBefore(p).updatedAt = 0
    /\ StoredAfter(p).updatedAt = 1

\* All links were deleted at time 1 from a sample that had none
EmptyLinksRestamped ==
  \E p \in Procs :
    /\ LinksDeleted(p)
    /\ procs[p].arg.relName = Undefined
    /\ StoredBefore(p).relatedLinks = "[]"
    /\ StoredAfter(p).updatedAt > StoredBefore(p).updatedAt

----------------------------------------------------------------------------
(* The message code after a putSample, under SpecFields *)

\* A putSample has resolved
PutDone(p) == Finished(p, "put") /\ procs[p].ret = "ok"

\* C30: after a putSample whose payload has no messageCode the stored
\* sample has no messageCode, whatever was stored before and also when the
\* payload has a messageBody
C30_PutClearsMessageCode ==
  \A p \in Procs :
    PutDone(p) /\ ~Has(procs[p].arg.body, "messageCode") =>
      ~Has(StoredAfter(p), "messageCode")

\* What the code does keep: the stored messageCode is cleared when the
\* payload has neither a messageCode nor a messageBody
PutClearsMessageCodeWithoutBody ==
  \A p \in Procs :
    /\ PutDone(p)
    /\ ~Has(procs[p].arg.body, "messageCode")
    /\ ~Has(procs[p].arg.body, "messageBody")
    => ~Has(StoredAfter(p), "messageCode")

\* A put with the messageBody m2 and no messageCode has gone through on a
\* sample stored with the messageCode c1: the code c1 is still stored, next
\* to the new body
StaleMessageCode ==
  \E p \in Procs :
    /\ PutDone(p)
    /\ procs[p].arg.body = [messageBody |-> "m2"]
    /\ Has(StoredBefore(p), "messageCode")
    /\ StoredBefore(p).messageCode = "c1"
    /\ StoredAfter(p).messageCode = "c1"
    /\ StoredAfter(p).messageBody = "m2"

\* A put without message fields has cleared a stored messageCode
MessageCodeCleared ==
  \E p \in Procs :
    /\ PutDone(p)
    /\ ~Has(procs[p].arg.body, "messageBody")
    /\ Has(StoredBefore(p), "messageCode")
    /\ ~Has(StoredAfter(p), "messageCode")

----------------------------------------------------------------------------
(* The related links after a putSample, under SpecFields *)

\* C31: a putSample whose payload has no relatedLinks retains the related
\* links of the stored sample, as the attribute algorithm does; it does not
\* reset them
C31_PutRetainsLinks ==
  \A p \in Procs :
    /\ PutDone(p)
    /\ ~Has(procs[p].arg.body, "relatedLinks")
    /\ Has(StoredBefore(p), "relatedLinks")
    => /\ Has(StoredAfter(p), "relatedLinks")
       /\ StoredAfter(p).relatedLinks = StoredBefore(p).relatedLinks

\* What the code does keep: after a putSample the stored links are those of
\* the payload, and none when the payload has none
PutReplacesLinks ==
  \A p \in Procs :
    PutDone(p) =>
      StoredAfter(p).relatedLinks =
        (IF Has(procs[p].arg.body, "relatedLinks")
         THEN stringifyLinks(procs[p].arg.body.relatedLinks)
         ELSE stringifyLinks(<<>>))

\* A put with a value and no relatedLinks has gone through on a sample
\* stored with the links l1 and l2: the sample is left without links
LinksReset ==
  \E p \in Procs :
    /\ PutDone(p)
    /\ procs[p].arg.body = [value |-> "5"]
    /\ StoredBefore(p).relatedLinks = "[l1,l2]"
    /\ StoredAfter(p).relatedLinks = "[]"

----------------------------------------------------------------------------
(* The status bookkeeping of patchSample, under SpecFields *)

\* A patchSample has resolved
PatchDone(p) == Finished(p, "patch") /\ procs[p].ret = "ok"

\* The status the evaluator computes for the value of the payload of p
PatchedStatus(p) ==
  calculateSampleStatus(procs[p].preH, procs[p].arg.name, procs[p].arg.body.value)

\* The patch of p stored the status computed for its value, and recorded a
\* status change exactly when that status is not the stored one
StatusRecomputed(p) ==
  /\ StoredAfter(p).status = PatchedStatus(p)
  /\ IF PatchedStatus(p) # StoredBefore(p).status
     THEN /\ StoredAfter(p).previousStatus = StoredBefore(p).status
          /\ StoredAfter(p).statusChangedAt = procs[p].t
     ELSE /\ StoredAfter(p).previousStatus = StoredBefore(p).previousStatus
          /\ StoredAfter(p).statusChangedAt = StoredBefore(p).statusChangedAt

\* C32: a patchSample without a value in the payload leaves status,
\* previousStatus and statusChangedAt as stored; with a value, whatever it
\* is, it stores the status computed for the value, and records the old
\* status and the time of the patch exactly when the status changes
C32_PatchRecomputesStatus ==
  \A p \in Procs :
    PatchDone(p) =>
      IF Has(procs[p].arg.body, "value")
      THEN StatusRecomputed(p)
      ELSE StatusTriple(StoredAfter(p)) = StatusTriple(StoredBefore(p))

\* What the code does keep: the status is recomputed for a value that is
\* not the empty string; without a value, and with the empty string as
\* value, the status, previousStatus and statusChangedAt stay as stored
PatchRecomputesStatusOfValue ==
  \A p \in Procs :
    PatchDone(p) =>
      IF Truthy(procs[p].arg.body, "value")
      THEN StatusRecomputed(p)
      ELSE StatusTriple(StoredAfter(p)) = StatusTriple(StoredBefore(p))

\* A patch at time 1 with the value 50 has changed the status of a sample
\* stored at time 0 from Ok to Critical
PatchChangedStatus ==
  \E p \in Procs :
    /\ PatchDone(p)
    /\ Truthy(procs[p].arg.body, "value")
    /\ StoredBefore(p).status = "Ok"
    /\ StoredBefore(p).statusChangedAt = 0
    /\ StoredAfter(p).status = "Critical"
    /\ StoredAfter(p).previousStatus = "Ok"
    /\ StoredAfter(p).statusChangedAt = 1

\* A patch with a value of the stored status has left the change time alone
PatchedSameStatus ==
  \E p \in Procs :
    /\ PatchDone(p)
    /\ Truthy(procs[p].arg.body, "value")
    /\ procs[p].arg.body.value # StoredBefore(p).value
    /\ PatchedStatus(p) = StoredBefore(p).status
    /\ procs[p].t > StoredBefore(p).statusChangedAt

\* A patch with the empty string as value has stored the value and left the
\* status of the value stored before
EmptyValuePatched ==
  \E p \in Procs :
    /\ PatchDone(p)
    /\ Has(procs[p].arg.body, "value")
    /\ procs[p].arg.body.value = ""
    /\ StoredAfter(p).value = ""
    /\ StoredAfter(p).status = "Critical"
    /\ PatchedStatus(p) = Invalid

-----------------------------------------------------------------------------
(* SpecPage: one request at a time; upserts of S|a and S|B and finds with   *)
(* every kind of filter: none, one exact name, a list of exact names, a     *)
(* wildcard on one side and a wildcard on both sides                        *)

nSb == <<"s", "|", "b">>

ListOf(a, b) == a \o <<",", " ">> \o b

PageFilters ==
  { NoFilter, nSA, nAbsentSubject, ListOf(nSb, nSA), ListOf(nSA, nAbsentSubject),
    Join(<<"s">>, Star), Join(Star, Star) }

PageOptions ==
  [order : {<<>>, <<"name">>, <<"-name">>},
   limit : {NoLimit} \cup 1..MaxLimit,
   offset : 0..MaxOffset,
   filter : PageFilters]

InitPage == InitFind

NextPage ==
  \/ \E p \in Procs : AllResting /\ Upserts(p, {nSA, nSB}, {[value |-> "50"]}, {"u1"})
  \/ \E p \in Procs : AllResting /\ Finds(p, PageOptions)
  \/ \E p \in Procs : PipelineStep(p)
  \/ \E p \in Procs : UpsertPrepare(p)
  \/ \E p \in Procs : UpsertReturn(p)
  \/ \E p \in Procs : FindKeys(p)
  \/ \E p \in Procs : FindReturn(p)

SpecPage == InitPage /\ [][NextPage]_vars

\* A find has resolved
Found(p) == Finished(p, "find") /\ procs[p].ret = "ok"

\* The sample keys a find is about, before any cut: the named keys, or the
\* keys of the index its name filter matches
Candidates(p) ==
  LET opts == procs[p].arg.body
      members == smembers(procs[p].preS, sampleIndexKey)
  IN IF opts.filter = NoFilter THEN members
     ELSE IF ~includes(opts.filter, "*")
     THEN { toKey(sampleType, splitNames(opts.filter)[i]) :
              i \in 1..Len(splitNames(opts.filter)) }
     ELSE { k \in members : filterSampleKeysByName({k}, opts) # {} }

Ordered(p) ==
  IF procs[p].arg.body.order = <<"-name">>
  THEN reverse(sort(Candidates(p))) ELSE sort(Candidates(p))

Joinable(p, keys) == SelectSeq(keys, LAMBDA k : k \in joinable(procs[p].preH, {k}))

\* The cut made once, on the keys before the fetch or on the objects after
PagedThenJoined(p) == Joinable(p, applyLimitAndOffset(procs[p].arg.body, Ordered(p)))
\* (the objects are ordered by their stored names, the keys by themselves)
JoinedThenPaged(p) ==
  LET keys == Joinable(p, sort(Candidates(p)))
      objs == [i \in 1..Len(keys) |-> [sample |-> procs[p].preH[keys[i]]]]
      byName == sortByOrder(objs, procs[p].arg.body.order)
  IN applyLimitAndOffset(procs[p].arg.body,
       IF procs[p].arg.body.order = <<>> THEN keys
       ELSE [i \in 1..Len(keys) |-> toKey(sampleType, NameOf(byName[i].sample))])

PagedOnce(p) == Returned(p) \in {PagedThenJoined(p), JoinedThenPaged(p)}

\* C33: in every branch of findSamples offset and limit are applied exactly
\* once: what a find returns is the page cut once from the ordered keys it is
\* about (before the fetch) or from the ordered objects (after it), for an
\* exact name and a list of exact names as for a wildcard or no filter
C33_PagedExactlyOnce ==
  \A p \in Procs : Found(p) => PagedOnce(p)

\* What the code does keep: a find by anything but exact names is cut once
PagedOnceUnlessExactNames ==
  \A p \in Procs :
    Found(p) /\ findBranch(procs[p].arg.body) \in {"all", "maps", "scan"} =>
      PagedOnce(p)

\* and so is a find by a list of exact names without order
PagedOnceListWithoutOrder ==
  \A p \in Procs :
    /\ Found(p)
    /\ findBranch(procs[p].arg.body) = "many"
    /\ procs[p].arg.body.order = <<>>
    => Returned(p) = PagedThenJoined(p)

\* A find by one exact name with offset 1 returned the sample
OneNameNotPaged ==
  \E p \in Procs :
    /\ Found(p)
    /\ findBranch(procs[p].arg.body) = "one"
    /\ procs[p].arg.body.offset = 1
    /\ Len(procs[p].out) = 1

\* A find by a list of two names, ordered, with offset 1 returned the one
\* sample that exists
ListNotPaged ==
  \E p \in Procs :
    /\ Found(p)
    /\ findBranch(procs[p].arg.body) = "many"
    /\ procs[p].arg.body.order # <<>>
    /\ procs[p].arg.body.offset = 1
    /\ Len(procs[p].out) = 1
    /\ Len(JoinedThenPaged(p)) = 0

\* A find by a wildcard without order skipped the first of two matching
\* samples and returned the second
WildcardPagedOnce ==
  \E p \in Procs :
    /\ Found(p)
    /\ findBranch(procs[p].arg.body) \in {"maps", "scan"}
    /\ procs[p].arg.body.filter # NoFilter
    /\ procs[p].arg.body.order = <<>>
    /\ procs[p].arg.body.offset = 1
    /\ Cardinality(Candidates(p)) = 2
    /\ Len(procs[p].out) = 1

-----------------------------------------------------------------------------
(* SpecScan: sscanAndFilterSampleKeys against an index that does not change *)
(* while it is scanned. The store answers every SSCAN with a cursor and a   *)
(* batch of members: a member may come in several batches, and the cursor 0 *)
(* comes once every member has come at least once.                          *)

MaxBatch == 2
MaxScans == 3

ScanKeys == { toKey(sampleType, nSA), toKey(sampleType, nSb),
              toKey(sampleType, nAbsentSubject) }

ScanFilters == { NoFilter, Join(Star, Star), Join(<<"s", "*">>, Star),
                 Join(<<"t", "*">>, <<"a", "*">>) }

ScanOptions == [order : {<<>>}, limit : {NoLimit}, offset : {0}, filter : ScanFilters]

\* A variant of addAll that keeps a key as often as it came
addAllArray(filteredSamples, keys) == filteredSamples \o keys

RECURSIVE addAll(_, _)
\* keys.forEach((key) => filteredSamples.add(key)): a Set keeps a key once,
\* in the order of the first insertion
addAll(filteredSamples, keys) ==
  IF keys = <<>> THEN filteredSamples
  ELSE addAll(IF \E i \in 1..Len(filteredSamples) : filteredSamples[i] = Head(keys)
              THEN filteredSamples
              ELSE Append(filteredSamples, Head(keys)),
              Tail(keys))

\* The batches the store may answer with
Batches(members) == UNION { [1..n -> members] : n \in 0..MaxBatch }

\* findSamples reaches the scan: cursor '0' and an empty Set
ScanStart(p, opts) ==
  /\ CanStart(p)
  /\ Spend(p)
  /\ procs' = [procs EXCEPT ![p] =
       [Begin(p, "scan", [NoArgs EXCEPT !.body = opts])
          EXCEPT !.pc = "scan", !.cur = [cursor |-> 0, covered |-> {}]]]
  /\ UNCHANGED <<hashes, sets, now>>

Scans(p, options) == \E opts \in options : ScanStart(p, opts)

\* One round trip of sscanAndFilterSampleKeys: the reply is filtered by the
\* name filter and added to the Set; on cursor '0' the Set is returned as an
\* array, else the function calls itself with the new cursor
ScanReply(p) ==
  LET r == procs[p]
      opts == r.arg.body
      members == smembers(sets, sampleIndexKey)
  IN
  /\ r.pc = "scan"
  /\ \E sampleKeys \in Batches(members) :
     \E newCursor \in {0, r.cur.cursor + 1} :
       LET covered == r.cur.covered \cup {sampleKeys[i] : i \in 1..Len(sampleKeys)}
           keys == IF opts.filter # NoFilter
                   THEN SelectSeq(sampleKeys,
                          LAMBDA k : filterSampleKeysByName({k}, opts) # {})
                   ELSE sampleKeys
           filteredSamples == addAll(r.work, keys)
           reply == [cursor |-> newCursor, keys |-> sampleKeys]
       IN
       /\ newCursor = 0 => covered = members
       /\ newCursor # 0 => Len(r.reads) + 1 < MaxScans
       /\ procs' = [procs EXCEPT ![p] =
            IF newCursor = 0
            THEN [r EXCEPT !.pc = "done", !.ret = "ok", !.out = filteredSamples,
                           !.work = filteredSamples,
                           !.reads = Append(r.reads, reply), !.cur = EmptyRec]
            ELSE [r EXCEPT !.work = filteredSamples,
                           !.reads = Append(r.reads, reply),
                           !.cur = [cursor |-> newCursor, covered |-> covered]]]
  /\ UNCHANGED <<hashes, sets, now, left>>

InitScan ==
  /\ hashes = InitHashes
  /\ \E index \in SUBSET ScanKeys : sets = (sampleIndexKey :> index) @@ InitSets
  /\ now = 0
  /\ procs = [p \in Procs |-> Idle]
  /\ left = [p \in Procs |-> IF p = 1 THEN MaxOps ELSE 0]

NextScan ==
  \/ \E p \in Procs : AllResting /\ Scans(p, ScanOptions)
  \/ \E p \in Procs : ScanReply(p)

SpecScan == InitScan /\ [][NextScan]_vars

\* The index names a scan is to return
Wanted(p) ==
  IF procs[p].arg.body.filter = NoFilter
  THEN smembers(procs[p].preS, sampleIndexKey)
  ELSE filterSampleKeysByName(smembers(procs[p].preS, sampleIndexKey), procs[p].arg.body)

\* C34: a scan started at cursor '0' asks again while the store answers with
\* another cursor and ends with the answer that carries cursor '0'; with the
\* index unchanged it returns every index name that matches the name filter
\* (every name without a filter) exactly once, also when a name came in
\* several batches
C34_ScanEndsAndReturnsEachOnce ==
  \A p \in Procs :
    procs[p].op = "scan" =>
      /\ \A i \in 1..(Len(procs[p].reads) - 1) : procs[p].reads[i].cursor # 0
      /\ procs[p].pc = "scan" =>
           \A i \in 1..Len(procs[p].reads) : procs[p].reads[i].cursor # 0
      /\ procs[p].pc = "done" =>
           /\ procs[p].reads[Len(procs[p].reads)].cursor = 0
           /\ \A i, j \in 1..Len(procs[p].out) :
                procs[p].out[i] = procs[p].out[j] => i = j
           /\ {procs[p].out[i] : i \in 1..Len(procs[p].out)} = Wanted(p)

\* A scan has returned a name that the store had sent in two batches
C34_Witness ==
  \E p \in Procs :
    /\ Finished(p, "scan")
    /\ Len(procs[p].reads) > 1
    /\ \E i, j \in 1..Len(procs[p].reads) :
         /\ i < j
         /\ \E k \in Wanted(p) :
              /\ \E n \in 1..Len(procs[p].reads[i].keys) : procs[p].reads[i].keys[n] = k
              /\ \E n \in 1..Len(procs[p].reads[j].keys) : procs[p].reads[j].keys[n] = k
    /\ Cardinality(Wanted(p)) > 1
    /\ Wanted(p) # smembers(procs[p].preS, sampleIndexKey)

-----------------------------------------------------------------------------
(* C35: no sample hash without its index entries *)

SampleKeys(h) == {key \in DOMAIN h : Head(key) = sampleType}

Orphan(h, s, key) ==
  ~InIndex(s, key) \/ ~InSubjectSet(s, key) \/ ~InAspectSet(s, key)

\* C35: between write requests that run one after the other from an empty
\* cache, every sample hash has its name in the sample index, its aspect in
\* its subject's aspect set and its subject in its aspect's subject set
C35_NoOrphanHash ==
  AllResting =>
    \A key \in SampleKeys(hashes) : ~Orphan(hashes, sets, key)

\* After a delete that succeeded two sample hashes are left, one of them
\* under a name of three segments
C35_Witness ==
  /\ AllResting
  /\ \E p \in Procs : Finished(p, "delete") /\ procs[p].ret = "ok"
  /\ Cardinality(SampleKeys(hashes)) >= 2
  /\ \E key \in SampleKeys(hashes) : Len(split(NameOfKey(key))) = 3

-----------------------------------------------------------------------------
(* SpecValue: one request at a time posts, puts, patches and upserts S|a    *)
(* with payloads with and without value; the ranges of the aspect stay      *)

ValueBodies ==
  { EmptyRec, [value |-> "5"], [value |-> "50"], [value |-> ""],
    [messageBody |-> "m2"] }

InitValue == Init

NextValue ==
  \/ AllResting /\ Tick
  \/ \E p \in Procs : AllResting /\ Posts(p, {"sid1"}, {"aid1"}, ValueBodies, {"u1"})
  \/ \E p \in Procs : AllResting /\ Puts(p, {nSA}, ValueBodies, {"u1"})
  \/ \E p \in Procs : AllResting /\ Patches(p, {nSA}, ValueBodies, {"u1"})
  \/ \E p \in Procs : AllResting /\ Upserts(p, {nSA}, ValueBodies, {"u1"})
  \/ \E p \in Procs : PipelineStep(p)
  \/ \E p \in Procs : PostCheck(p)
  \/ \E p \in Procs : PutCheck(p)
  \/ \E p \in Procs : PatchCheck(p)
  \/ \E p \in Procs : UpsertPrepare(p)
  \/ \E p \in Procs : UpsertReturn(p)
  \/ \E p \in Procs : SampleWritten(p)
  \/ \E p \in Procs : SampleReturn(p)

SpecValue == InitValue /\ [][NextValue]_vars

\* The status the evaluator computes for the value a sample hash holds
StatusOfStored(h, key) ==
  calculateSampleStatus(h, NameOfKey(key),
                        IF Has(h[key], "value") THEN h[key].value ELSE Undefined)

StatusFits(h, key) == Has(h[key], "status") /\ h[key].status = StatusOfStored(h, key)

\* C36: with the ranges of the aspect fixed, between posts, puts, patches and
\* upserts that run one after the other the status of every stored sample is
\* the status the evaluator computes for its stored value, also after a put
\* or a patch whose value is the empty string
C36_StatusFitsValue ==
  AllResting => \A key \in SampleKeys(hashes) : StatusFits(hashes, key)

\* What the code does keep: a request other than a patch leaves a sample
\* whose status fitted its value with a status that fits its value
StatusFitsUnlessPatched ==
  \A p \in Procs :
    /\ procs[p].pc = "done"
    /\ procs[p].op \in {"post", "put", "upsert"}
    /\ procs[p].ret = "ok"
    /\ HasHash(procs[p].preH, toKey(sampleType, nSA))
         => StatusFits(procs[p].preH, toKey(sampleType, nSA))
    => StatusFits(hashes, toKey(sampleType, nSA))

\* and so does a patch whose value is not the empty string
StatusFitsUnlessPatchedEmpty ==
  \A p \in Procs :
    /\ PatchDone(p)
    /\ Truthy(procs[p].arg.body, "value") \/ ~Has(procs[p].arg.body, "value")
    /\ StatusFits(procs[p].preH, toKey(sampleType, nSA))
    => StatusFits(hashes, toKey(sampleType, nSA))

\* A sample posted with value 50 was patched with the empty value: the stored
\* value is empty and the stored status is the status of 50
StaleStatus ==
  \E p \in Procs :
    /\ PatchDone(p)
    /\ AllResting
    /\ StatusFits(procs[p].preH, toKey(sampleType, nSA))
    /\ ~StatusFits(hashes, toKey(sampleType, nSA))
    /\ hashes[toKey(sampleType, nSA)].value = ""
    /\ hashes[toKey(sampleType, nSA)].status # Invalid

\* A put with the empty value has stored the status Invalid in place of Critical
PutEmptyValueFits ==
  \E p \in Procs :
    /\ Finished(p, "put") /\ procs[p].ret = "ok"
    /\ Has(procs[p].arg.body, "value") /\ procs[p].arg.body.value = ""
    /\ procs[p].preH[toKey(sampleType, nSA)].status # Invalid
    /\ hashes[toKey(sampleType, nSA)].status = Invalid

-----------------------------------------------------------------------------
(* SpecHistory: one upsert of S|a after the other, with values that change  *)
(* or stay, while the clock moves and the ranges of the aspect are retuned  *)

HistoryBodies == StatusBodies \cup {[value |-> ""]}

InitHistory == Init

NextHistory ==
  \/ AllResting /\ Tick
  \/ Retune
  \/ \E p \in Procs : AllResting /\ Upserts(p, {nSA, nUpper}, HistoryBodies, {"u1"})
  \/ \E p \in Procs : PipelineStep(p)
  \/ \E p \in Procs : UpsertPrepare(p)
  \/ \E p \in Procs : UpsertReturn(p)

SpecHistory == InitHistory /\ [][NextHistory]_vars

StatusChanged(p) == After.status # Before(p).status

\* C37: an upsert of a stored sample never moves statusChangedAt back; it
\* sets it, to the time of the upsert, exactly when it changes the stored
\* status (so that it changes whenever the clock has moved since the last
\* change), and then previousStatus is the status stored before and differs
\* from the new status
C37_StatusHistory ==
  \A p \in Procs :
    UpsertedExisting(p) =>
      /\ After.statusChangedAt >= Before(p).statusChangedAt
      /\ StatusChanged(p) =>
           /\ After.statusChangedAt = procs[p].t
           /\ After.previousStatus = Before(p).status
           /\ After.previousStatus # After.status
      /\ ~StatusChanged(p) =>
           /\ After.statusChangedAt = Before(p).statusChangedAt
           /\ After.previousStatus = Before(p).previousStatus
      /\ procs[p].t > Before(p).statusChangedAt =>
           (After.statusChangedAt # Before(p).statusChangedAt <=> StatusChanged(p))

\* An upsert at a later time moved the status of a sample back to the status
\* it had before its last change: the previous status is the status that was
\* stored, and the change time has moved on
C37_Witness ==
  \E p \in Procs :
    /\ UpsertedExisting(p)
    /\ StatusChanged(p)
    /\ Before(p).previousStatus = After.status
    /\ Before(p).statusChangedAt < After.statusChangedAt
    /\ After.previousStatus = Before(p).status

\* An upsert with another value has left the status and its history alone
HistoryKept ==
  \E p \in Procs :
    /\ UpsertedExisting(p)
    /\ ~StatusChanged(p)
    /\ Has(Deciding(p), "value")
    /\ Deciding(p).value # Before(p).value
    /\ procs[p].t > Before(p).statusChangedAt

-----------------------------------------------------------------------------
(* SpecTwoPosts: two postSample requests for the pair (S, a), in any        *)
(* interleaving of their round trips, from the empty cache                  *)

TwoPostBodies == {[value |-> "5"], [value |-> "50"]}

InitTwoPosts ==
  /\ hashes = InitHashes
  /\ sets = InitSets
  /\ now = 0
  /\ procs = [p \in Procs |-> Idle]
  /\ left = [p \in Procs |-> 1]

NextTwoPosts ==
  \/ Tick
  \/ \E p \in Procs : Posts(p, {"sid1"}, {"aid1"}, TwoPostBodies, {"u1", "u2"})
  \/ \E p \in Procs : PipelineStep(p)
  \/ \E p \in Procs : PostCheck(p)
  \/ \E p \in Procs : SampleWritten(p)
  \/ \E p \in Procs : SampleReturn(p)

SpecTwoPosts == InitTwoPosts /\ [][NextTwoPosts]_vars

\* The reply to the duplicate check of p arrives in this step
CheckReplied(p) ==
  /\ procs[p].pc = "post_get"
  /\ procs'[p].pc # "post_get"

\* C38: the duplicate check alone decides a postSample: the request is
\* rejected with Conflict exactly when the hash is there at the moment the
\* check reads it, and a request that passed the check resolves, whatever
\* was written in between; nothing else keeps two posts of one pair, started
\* when no sample exists, from both creating the sample
C38_OnlyTheCheckGuards ==
  [][\A p \in Procs :
       /\ CheckReplied(p) =>
            /\ procs'[p].ret = "Conflict" <=>
                 HasHash(hashes, toKey(sampleType, procs[p].name))
            /\ procs'[p].ret # "Conflict" => procs'[p].pc = "write"
       /\ procs[p].pc = "write" /\ procs'[p].pc = "done" => procs'[p].ret = "ok"
    ]_vars

\* A post that passed the check has one way on: it resolves
PassedPostResolves ==
  \A p \in Procs :
    procs[p].op = "post" /\ procs[p].pc = "done" /\ procs[p].ret # "ok"
      => procs[p].ret = "Conflict" /\ HasHash(hashes, toKey(sampleType, nSA))

\* Both posts were started when no sample existed and both have resolved
BothPostsResolved ==
  \A p \in Procs :
    /\ Finished(p, "post")
    /\ procs[p].ret = "ok"
    /\ ~HasHash(procs[p].preH, toKey(sampleType, nSA))

\* Both posts were started when no sample existed; one has resolved and the
\* other got the Conflict error
OnePostConflicted ==
  \E p, q \in Procs :
    /\ Finished(p, "post") /\ procs[p].ret = "ok"
    /\ Finished(q, "post") /\ procs[q].ret = "Conflict"
    /\ ~HasHash(procs[p].preH, toKey(sampleType, nSA))
    /\ ~HasHash(procs[q].preH, toKey(sampleType, nSA))

-----------------------------------------------------------------------------
(* SpecOrphan: the sample S|a is stored. A first upsert, put or patch of    *)
(* S|a runs against a deleteSample of S|a in any interleaving of their      *)
(* round trips; the requests that follow run one after the other            *)

OrphanKey == toKey(sampleType, nSA)

InitOrphan ==
  /\ hashes = RunHashes(InitHashes, EarlierPost)
  /\ sets = RunSets(InitSets, EarlierPost)
  /\ now = 0
  /\ procs = [p \in Procs |-> Idle]
  /\ left = [p \in Procs |-> IF p = Creator THEN MaxOps ELSE 1]

\* The first write request may start at any time, the later ones start
\* between requests
MayStart(p) == p = Creator /\ (left[p] = MaxOps \/ AllResting)

\* The delete starts before the first write request or during it
Races == left[Creator] = MaxOps \/ (left[Creator] = MaxOps - 1 /\ ~Resting(Creator))

\* The later requests start between requests
Later(p) == p = Creator /\ left[p] < MaxOps /\ AllResting

NextOrphan ==
  \/ \E p \in Procs : MayStart(p) /\ Upserts(p, {nSA, nUpper}, PlainBodies, {"u1"})
  \/ \E p \in Procs : MayStart(p) /\ Puts(p, {nSA}, PlainBodies, {"u1"})
  \/ \E p \in Procs : MayStart(p) /\ Patches(p, {nSA}, PlainBodies, {"u1"})
  \/ Races /\ Deletes(Deleter, {nSA}, {"u1"})
  \/ \E p \in Procs : Later(p) /\ Posts(p, {"sid1"}, {"aid1", "aid2"}, PlainBodies, {"u1"})
  \/ \E p \in Procs : Later(p) /\ Upserts(p, {nSB}, PlainBodies, {"u1"})
  \/ \E p \in Procs : Later(p) /\ Bulks(p, {Named(nSA, [value |-> "5"])}, {"u1"})
  \/ \E p \in Procs : Later(p) /\ DeleteLinks(p, {nSA}, {Undefined}, {"u1"})
  \/ \E p \in Procs : Later(p) /\ Deletes(p, {nSA, nSB}, {"u1"})
  \/ \E p \in Procs : Advance(p)

SpecOrphan == InitOrphan /\ [][NextOrphan]_vars

\* The hash is there and its name is in none of the three index structures
OrphanHash(h, s, key) ==
  HasHash(h, key) /\ ~InIndex(s, key) /\ ~InSubjectSet(s, key) /\ ~InAspectSet(s, key)

\* The store executes, in this step, a write of the hash of the key that an
\* upsert, a put or a patch has sent
WritesHash(p, key) ==
  /\ procs[p].op \in {"upsert", "put", "patch"}
  /\ procs[p].cmds # <<>>
  /\ HeadCmd(p).op = "hmset"
  /\ HeadCmd(p).key = key
  /\ procs'[p] # procs[p]

\* A step of a deleteSample of the key
DeleteSteps(key) ==
  \E p \in Procs :
    /\ procs[p].op = "delete"
    /\ toKey(sampleType, procs[p].arg.name) = key
    /\ procs'[p] # procs[p]

\* C39: when the write of an upsert, a put or a patch that has read the
\* sample lands after the pipeline of a concurrent deleteSample has removed
\* the hash and the three index entries, the store holds a sample hash whose
\* name is in none of the three index structures; and such a hash stays, in
\* none of the three, through every later request but a delete of that name
C39_OrphanHashStays ==
  [][/\ \A p \in Procs :
          /\ WritesHash(p, OrphanKey)
          /\ ~HasHash(hashes, OrphanKey)
          /\ ~InIndex(sets, OrphanKey)
          => OrphanHash(hashes', sets', OrphanKey)
     /\ OrphanHash(hashes, sets, OrphanKey) /\ ~OrphanHash(hashes', sets', OrphanKey)
          => DeleteSteps(OrphanKey) /\ ~HasHash(hashes', OrphanKey)
    ]_vars

\* The first request (op), which had read the stored sample, and the delete
\* are both over, and the hash is left in none of the three structures
OrphanLeftBy(op, ret) ==
  /\ AllResting
  /\ Finished(Creator, op) /\ procs[Creator].ret = ret
  /\ HasHash(procs[Creator].preH, OrphanKey)
  /\ Finished(Deleter, "delete") /\ procs[Deleter].ret = "ok"
  /\ left[Creator] = MaxOps - 1
  /\ OrphanHash(hashes, sets, OrphanKey)

C39_Witness == OrphanLeftBy("upsert", "ok")

\* A put and a patch leave the orphan hash as well; they read it back, find
\* no name in it and fail on parsing the name
OrphanLeftByPut == OrphanLeftBy("put", "InvalidName")
OrphanLeftByPatch == OrphanLeftBy("patch", "InvalidName")

\* The orphan hash is still there after two later requests, one of them a
\* post of the same pair that got the Conflict error
OrphanOutlivesPost ==
  /\ AllResting
  /\ left[Creator] = MaxOps - 2
  /\ Finished(Creator, "post") /\ procs[Creator].ret = "Conflict"
  /\ OrphanHash(hashes, sets, OrphanKey)

\* A later delete of the name has removed the orphan hash
OrphanDeleted ==
  /\ AllResting
  /\ Finished(Creator, "delete") /\ procs[Creator].ret = "ok"
  /\ OrphanHash(procs[Creator].preH, procs[Creator].preS, OrphanKey)
  /\ ~HasHash(hashes, OrphanKey)

-----------------------------------------------------------------------------
(* SpecJoin: one request at a time, from the empty cache: upserts of names  *)
(* of two and of three segments, getSample and the unfiltered findSamples   *)

JoinNames == {nSA, nUpper, nSB, nCompound}

InitJoin == Init

NextJoin ==
  \/ \E p \in Procs : AllResting /\ Upserts(p, JoinNames, PlainBodies, {"u1"})
  \/ \E p \in Procs : AllResting /\ Gets(p, JoinNames)
  \/ \E p \in Procs : AllResting /\ Finds(p, {Unfiltered})
  \/ \E p \in Procs : PipelineStep(p)
  \/ \E p \in Procs : UpsertPrepare(p)
  \/ \E p \in Procs : UpsertReturn(p)
  \/ \E p \in Procs : GetReturn(p)
  \/ \E p \in Procs : FindKeys(p)
  \/ \E p \in Procs : FindReturn(p)

SpecJoin == InitJoin /\ [][NextJoin]_vars

\* A getSample of a name that an upsert had stored is over
GotStored(p) ==
  /\ Finished(p, "get")
  /\ HasHash(procs[p].preH, toKey(sampleType, procs[p].arg.name))

\* The read returns the stored sample
Gotten(p) ==
  /\ procs[p].ret = "ok"
  /\ Len(procs[p].out) = 1
  /\ toKey(sampleType, procs[p].out[1].name) = toKey(sampleType, procs[p].arg.name)

PairKey(key) == Len(split(NameOfKey(key))) = 2

\* C40: once an upsert of a name has succeeded, and with no request running
\* beside, getSample of the name returns the sample and the unfiltered
\* findSamples contains it, for names of two and of three segments
C40_UpsertedIsReadable ==
  \A p \in Procs :
    /\ GotStored(p) => Gotten(p)
    /\ UnfilteredFound(p) =>
         \A key \in SampleKeys(procs[p].preH) :
           \E i \in 1..Len(Returned(p)) : Returned(p)[i] = key

\* What the code does keep: the samples with names of two segments are read
UpsertedPairIsReadable ==
  \A p \in Procs :
    /\ GotStored(p) /\ PairKey(toKey(sampleType, procs[p].arg.name)) => Gotten(p)
    /\ UnfilteredFound(p) =>
         \A key \in SampleKeys(procs[p].preH) :
           PairKey(key) => \E i \in 1..Len(Returned(p)) : Returned(p)[i] = key

\* The sample s|a|x, stored by an upsert that checked the aspect a, was asked
\* for: the read looked for the aspect a|x and answered NotFound
CompoundNotFound ==
  \E p \in Procs :
    /\ GotStored(p)
    /\ procs[p].arg.name = nCompound
    /\ aspectExists(procs[p].preH, <<"a">>)
    /\ ~HasHash(procs[p].preH, toKey(aspectType, <<"a", "|", "x">>))
    /\ procs[p].ret = "NotFound"

\* An unfiltered find has returned S|a and left out the indexed s|a|x
CompoundLeftOut ==
  \E p \in Procs :
    /\ UnfilteredFound(p)
    /\ InIndex(procs[p].preS, toKey(sampleType, nCompound))
    /\ HasHash(procs[p].preH, toKey(sampleType, nCompound))
    /\ Len(procs[p].out) = 1
    /\ Returned(p)[1] = toKey(sampleType, nSA)

\* A sample upserted as S|A was read as s|a
PairGotten ==
  \E p \in Procs :
    /\ GotStored(p) /\ Gotten(p)
    /\ procs[p].arg.name = nSA
    /\ procs[p].out[1].name = nUpper

====
